---------------------------- MODULE Spec2Model ----------------------------
(***************************************************************************)
(* The asynchronous job execution plane of vtree_search:                   *)
(*   VTreeSearchEngine  (src_py/vtree_search/search/engine.py)             *)
(*   RedisSearchQueue   (src_py/vtree_search/queue/redis_streams.py)       *)
(* Redis is the shared state: the job hashes job:<id>, the main stream     *)
(* with its consumer group (last-delivered id and pending-entries list)    *)
(* and the DLQ stream.  Clients call submit_search and cancel_job, workers *)
(* run _process_message; every Redis command is one atomic step and the    *)
(* steps of different callers interleave freely.                           *)
(***************************************************************************)
EXTENDS Naturals, Integers, Sequences, FiniteSets, TLC

\* ------------------------------------------------------------------ bounds
\* submit_search calls that mint a job_id (uuid4) in one run of the model
MaxJobs == 2

\* largest max_items passed to run_worker_once
MaxItems == 2

\* longest candidate list the pipeline returns
MaxCandidates == 2
\* last tick of the clock
MaxNow == 6
\* most dimensions of a query value
MaxNdim == 2
\* largest retry_base_ms, retry_max_ms and retry number of the backoff runs
MaxBaseMs == 4
MaxMaxMs == 8
MaxNext == 4

\* ------------------------------------------------------- configuration
\* RedisQueueConfig.queue_max_len / queue_reject_at, SearchConfig.max_retries
\* (validate_reject_threshold: queue_reject_at <= queue_max_len)
queue_max_len == 2
queue_reject_at == 2
max_retries == 1
\* PostgresConfig.embedding_dim
embedding_dim == 2
\* seconds a job hash lives after EXPIRE
result_ttl_sec == 3

\* top_k and len(query_embedding) passed to submit_search
TopKs == 0..2
EmbeddingLens == (embedding_dim - 1)..(embedding_dim + 1)

\* callers of submit_search and callers of cancel_job
Submitters == {"s1"}
Cancelers == {"c1"}
\* callers of submit_search that run at the same time (web handlers)
Racers == {"s2", "s3", "s4", "s5"}
Clients == Submitters \cup Cancelers \cup Racers
Workers == {"w1", "w2"}
Jobs == 1..MaxJobs
\* job ids (uuid4) that exist when every racer's call is accepted too
MaxRaceJobs == MaxJobs + 2
JobIds == 1..MaxRaceJobs
\* str(exc) of a failed pipeline attempt
Errors == {"boom"}
\* every XADD to the main stream is a submit or one of its retries
MaxMsgs == MaxJobs * (max_retries + 1)

Terminal == {"SUCCEEDED", "FAILED", "CANCELED"}

VARIABLES
    rec,            \* job_id -> the hash job:<job_id> (the empty function: no key)
    stream,         \* the main stream: entries in id order
    dlq,            \* the DLQ stream
    lastDelivered,  \* the consumer group's last-delivered id
    pel,            \* the consumer group's pending entries (delivered, not ACKed)
    nextId,         \* ids given by XADD so far
    nextJob,        \* job_ids minted so far
    cpc,            \* client -> position in submit_search / cancel_job
    cjob,           \* client -> job_id of the call in progress
    cdepth,         \* client -> the depth guard_capacity read
    cstate,         \* client -> the state cancel_job read
    coutcome,       \* client -> how its last finished call ended
    wpc,            \* worker -> position in run_worker_once / _process_message
    wmsg,           \* worker -> the message it holds
    werr,           \* worker -> error_message = str(exc) of the failed attempt
    wlate,          \* worker -> ids it read whose job already had canceled=1 written
    wpayload,       \* worker -> payload_json of the message, else of the record
    wbatch,         \* worker -> messages of its read still to be processed
    wread,          \* worker -> len(messages) of its read
    wcount,         \* worker -> processed, the counter of run_worker_once
    wonce,          \* worker -> "forever" (run_worker_forever), or the state of its
                    \*           run_worker_once call: "once", "returned", "config_error"
    wret,           \* worker -> what its run_worker_once call returned
    wio,            \* worker -> locals of _build_filtered_result: the pipeline's
                    \*           candidates and metrics, top_k, the judge's decisions
    now,            \* the clock, in seconds
    ttl,            \* job_id -> seconds until the key job:<id> expires (-1: no expiry set)
    lastWrite,      \* job_id -> time of the last HSET on job:<id> (-1: never written)
    kpc,            \* position of the caller inside create_job_record / update_job_record
    bk,             \* retry window, retry number and the backoff slept for it
    req,            \* the last SearchRequest(query=..., top_k=...) call and its outcome
    succeededWrites,\* job_id -> mark_succeeded calls made for it
    reenqueued,     \* job_id -> retry re-enqueues made for it
    attempts,       \* job_id -> pipeline attempts that ended (returned or raised)
    acks            \* message id -> XACKs made for it since its delivery (-1: not delivered)

vars == <<rec, stream, dlq, lastDelivered, pel, nextId, nextJob,
          cpc, cjob, cdepth, cstate, coutcome, wpc, wmsg, werr, wlate, wpayload,
          wbatch, wread, wcount, wonce, wret, wio, now, ttl, lastWrite, kpc, bk, req,
          succeededWrites, reenqueued, attempts, acks>>

redisVars == <<rec, stream, dlq, lastDelivered, pel, nextId>>
clientVars == <<cpc, cjob, cdepth, cstate, coutcome, nextJob>>
callVars == <<wbatch, wread, wcount, wonce, wret, wio>>
timeVars == <<now, ttl, lastWrite, kpc, bk, req>>
workerVars == <<wpc, wmsg, werr, wlate, wpayload, callVars>>
ghostVars == <<succeededWrites, reenqueued, attempts, acks>>

NoRecord == [f \in {} |-> ""]
\* no retry slept yet
NoBackoff == [base |-> 0, max |-> 0, next |-> 0, slept |-> 0]
\* no array
NoArray == [shape |-> <<>>, dtype |-> "none", contiguous |-> TRUE]
\* SearchRequest not called yet
NoRequest == [made |-> FALSE, value |-> NoArray, top_k |-> 0,
              error |-> "", query |-> NoArray]
\* no pipeline output yet
NoIO == [candidates |-> <<>>, top_k |-> 0, metrics |-> <<>>,
         decisions |-> <<>>, ran |-> FALSE, judged |-> FALSE]
\* job 0: the entry has no job_id field; payload "": no payload_json
NoMsg == [id |-> 0, job |-> 0, retries |-> 0, payload |-> ""]

\* record.get(field, default)
Field(r, f, d) == IF f \in DOMAIN r THEN r[f] ELSE d

\* get_job_record: HGETALL; an empty reply is None
Exists(j) == DOMAIN rec[j] # {}

\* update_job_record: HSET key mapping (the fields of the mapping overwrite)
\* with updated_at = now
HSet(j, mapping) ==
    rec' = [rec EXCEPT ![j] = ([updated_at |-> now] @@ mapping) @@ rec[j]]

\* create_job_record's mapping
NewRecord ==
    [state |-> "PENDING", retries |-> 0, canceled |-> "0",
     payload_json |-> "p", last_error |-> "", result_json |-> "",
     updated_at |-> now]

\* queue_depth: XLEN of the main stream
QueueDepth == Len(stream)

\* messages of the main stream not yet ACKed: undelivered, or in the PEL
Unacked == {i \in 1..Len(stream) :
               stream[i].id > lastDelivered \/ stream[i].id \in pel}

GuardRejectsLoose(depth) == depth > queue_reject_at
\* guard_capacity: raise QueueOverloadedError when depth >= queue_reject_at
GuardRejects(depth) == depth >= queue_reject_at

\* XADD to the main stream
XAdd(j, r, payload_json) ==
    /\ nextId < MaxMsgs
    /\ nextId' = nextId + 1
    /\ stream' = Append(stream, [id |-> nextId + 1, job |-> j, retries |-> r,
                                 payload |-> payload_json])

\* XTRIM MAXLEN ~ queue_max_len: whole macro nodes of the oldest entries go, so
\* any number of them from none to all above the cap
XTrim ==
    \E k \in 0..(IF Len(stream) > queue_max_len
                 THEN Len(stream) - queue_max_len ELSE 0) :
        stream' = SubSeq(stream, k + 1, Len(stream))

-----------------------------------------------------------------------------
Init ==
    /\ now = 0
    /\ rec = [j \in JobIds |-> NoRecord]
    /\ stream = <<>>
    /\ dlq = <<>>
    /\ lastDelivered = 0
    /\ pel = {}
    /\ nextId = 0
    /\ nextJob = 0
    /\ cpc = [c \in Clients |-> "idle"]
    /\ cjob = [c \in Clients |-> 0]
    /\ cdepth = [c \in Clients |-> 0]
    /\ cstate = [c \in Clients |-> "-"]
    /\ coutcome = [c \in Clients |-> "none"]
    /\ wpc = [w \in Workers |-> "idle"]
    /\ wmsg = [w \in Workers |-> NoMsg]
    /\ werr = [w \in Workers |-> ""]
    /\ wlate = [w \in Workers |-> {}]
    /\ wpayload = [w \in Workers |-> ""]
    /\ wbatch = [w \in Workers |-> <<>>]
    /\ wread = [w \in Workers |-> 0]
    /\ wcount = [w \in Workers |-> 0]
    /\ wonce = [w \in Workers |-> "forever"]
    /\ wret = [w \in Workers |-> 0]
    /\ wio = [w \in Workers |-> NoIO]
    /\ ttl = [j \in JobIds |-> 0 - 1]
    /\ lastWrite = [j \in JobIds |-> 0 - 1]
    /\ kpc = "idle"
    /\ bk = NoBackoff
    /\ req = NoRequest
    /\ succeededWrites = [j \in JobIds |-> 0]
    /\ reenqueued = [j \in JobIds |-> 0]
    /\ attempts = [j \in JobIds |-> 0]
    /\ acks = [i \in 1..MaxMsgs |-> 0 - 1]

-----------------------------------------------------------------------------
\* submit_search (validation passed): guard_capacity reads the depth (XLEN)
SubmitGuard(c) ==
    /\ cpc[c] = "idle"
    /\ cpc' = [cpc EXCEPT ![c] = "guarded"]
    /\ cdepth' = [cdepth EXCEPT ![c] = QueueDepth]
    /\ coutcome' = [coutcome EXCEPT ![c] = "none"]
    /\ cstate' = [cstate EXCEPT ![c] = "-"]
    /\ cjob' = [cjob EXCEPT ![c] = 0]
    /\ UNCHANGED <<redisVars, nextJob, workerVars, ghostVars>>
    /\ UNCHANGED timeVars

ValidSubmissionTopKOnly(top_k, n) == top_k >= 1
\* neither "if top_k < 1" nor "if len(query_embedding) != embedding_dim" raises
ValidSubmission(top_k, n) == top_k >= 1 /\ n = embedding_dim

\* submit_search raises ConfigurationError on its arguments
SubmitInvalid(c) ==
    /\ cpc[c] = "idle"
    /\ coutcome' = [coutcome EXCEPT ![c] = "config_error"]
    /\ cstate' = [cstate EXCEPT ![c] = "-"]
    /\ cjob' = [cjob EXCEPT ![c] = 0]
    /\ UNCHANGED <<redisVars, nextJob, cpc, cdepth, workerVars, ghostVars>>
    /\ UNCHANGED timeVars

\* submit_search(top_k, query_embedding of length n): validation, then
\* guard_capacity
SubmitSearch(c, top_k, n) ==
    IF ValidSubmission(top_k, n) THEN SubmitGuard(c) ELSE SubmitInvalid(c)

\* the job record written before the capacity check is evaluated
SubmitRejectedAfterWrite(c) ==
    /\ cpc[c] = "guarded"
    /\ GuardRejects(cdepth[c])
    /\ nextJob < MaxJobs
    /\ cpc' = [cpc EXCEPT ![c] = "idle"]
    /\ coutcome' = [coutcome EXCEPT ![c] = "overloaded"]
    /\ nextJob' = nextJob + 1
    /\ HSet(nextJob + 1, NewRecord)
    /\ UNCHANGED <<stream, dlq, lastDelivered, pel, nextId,
                   cjob, cdepth, cstate, workerVars, ghostVars>>
    /\ UNCHANGED timeVars

\* guard_capacity raises QueueOverloadedError: submit_search ends here
SubmitRejected(c) ==
    /\ cpc[c] = "guarded"
    /\ GuardRejects(cdepth[c])
    /\ cpc' = [cpc EXCEPT ![c] = "idle"]
    /\ coutcome' = [coutcome EXCEPT ![c] = "overloaded"]
    /\ UNCHANGED <<redisVars, nextJob, cjob, cdepth, cstate,
                   workerVars, ghostVars>>
    /\ UNCHANGED timeVars

\* the job_id minted and the enqueue started with no create_job_record
SubmitCreateNoRecord(c) ==
    /\ cpc[c] = "guarded"
    /\ ~GuardRejects(cdepth[c])
    /\ nextJob < MaxJobs
    /\ nextJob' = nextJob + 1
    /\ cjob' = [cjob EXCEPT ![c] = nextJob + 1]
    /\ cpc' = [cpc EXCEPT ![c] = "enq_len"]
    /\ UNCHANGED <<redisVars, cdepth, cstate, coutcome, workerVars, ghostVars>>
    /\ UNCHANGED timeVars

\* guard_capacity returns; job_id = uuid4().hex; create_job_record (HSET)
SubmitCreateWithin(c, limit) ==
    /\ cpc[c] = "guarded"
    /\ ~GuardRejects(cdepth[c])
    /\ nextJob < limit
    /\ nextJob' = nextJob + 1
    /\ cjob' = [cjob EXCEPT ![c] = nextJob + 1]
    /\ HSet(nextJob + 1, NewRecord)
    /\ cpc' = [cpc EXCEPT ![c] = "enq_len"]
    /\ UNCHANGED <<stream, dlq, lastDelivered, pel, nextId,
                   cdepth, cstate, coutcome, workerVars, ghostVars>>
    /\ UNCHANGED timeVars

SubmitCreate(c) == SubmitCreateWithin(c, MaxJobs)

-----------------------------------------------------------------------------
\* fetch_result(j): the exception class it raises, or SearchJobResult, with the
\* exception's message and the state stamped on a returned result
FetchResult(j) ==
    IF ~Exists(j)
    THEN [kind |-> "JobExpiredError", message |-> "expired or absent", state |-> "-"]
    ELSE IF Field(rec[j], "state", "PENDING") = "FAILED"
    THEN [kind |-> "JobFailedError",
          message |-> IF Field(rec[j], "last_error", "") # ""
                      THEN rec[j].last_error ELSE "failed",
          state |-> "-"]
    ELSE IF Field(rec[j], "state", "PENDING") # "SUCCEEDED"
    THEN [kind |-> "JobFailedError",
          message |-> "state is not SUCCEEDED: " \o Field(rec[j], "state", "PENDING"),
          state |-> "-"]
    ELSE IF Field(rec[j], "result_json", "") = ""
    THEN [kind |-> "JobFailedError", message |-> "result_json is empty", state |-> "-"]
    ELSE [kind |-> "SearchJobResult", message |-> "", state |-> "SUCCEEDED"]

-----------------------------------------------------------------------------
\* a caller holds a job_id once the submit_search that minted it has returned;
\* any other id it passes names no record (j > nextJob)
Known(j) ==
    /\ j <= nextJob
    /\ \A s \in Submitters : cpc[s] = "idle" \/ cjob[s] # j

\* cancel_job(j): get_job_record, then the branch on the state it read
CancelGet(c, j) ==
    /\ cpc[c] = "idle"
    /\ Known(j) \/ j > nextJob
    /\ cdepth' = [cdepth EXCEPT ![c] = 0]
    /\ IF ~Exists(j)
       THEN /\ coutcome' = [coutcome EXCEPT ![c] = "not_found"]
            /\ cstate' = [cstate EXCEPT ![c] = "-"]
            /\ cjob' = [cjob EXCEPT ![c] = 0]
            /\ UNCHANGED cpc
       ELSE IF Field(rec[j], "state", "PENDING") \in Terminal
       THEN /\ coutcome' = [coutcome EXCEPT ![c] = "already_terminal"]
            /\ cstate' = [cstate EXCEPT ![c] = "-"]
            /\ cjob' = [cjob EXCEPT ![c] = 0]
            /\ UNCHANGED cpc
       ELSE /\ coutcome' = [coutcome EXCEPT ![c] = "none"]
            /\ cstate' = [cstate EXCEPT ![c] = Field(rec[j], "state", "PENDING")]
            /\ cjob' = [cjob EXCEPT ![c] = j]
            /\ cpc' = [cpc EXCEPT ![c] = "c_flag"]
    /\ UNCHANGED <<redisVars, nextJob, workerVars, ghostVars>>
    /\ UNCHANGED timeVars

MarksCanceledWhileActive(st) == st \in {"PENDING", "RUNNING"}
\* if state == "PENDING": mark_canceled
MarksCanceled(st) == st = "PENDING"

\* mark_cancel_requested: HSET canceled=1
CancelFlag(c) ==
    /\ cpc[c] = "c_flag"
    /\ HSet(cjob[c], [canceled |-> "1"])
    /\ IF MarksCanceled(cstate[c])
       THEN /\ cpc' = [cpc EXCEPT ![c] = "c_mark"]
            /\ UNCHANGED coutcome
       ELSE /\ cpc' = [cpc EXCEPT ![c] = "idle"]
            /\ coutcome' = [coutcome EXCEPT ![c] = "cancel_requested"]
    /\ UNCHANGED <<stream, dlq, lastDelivered, pel, nextId, nextJob,
                   cjob, cdepth, cstate, workerVars, ghostVars>>
    /\ UNCHANGED timeVars

\* state == "PENDING": mark_canceled (HSET state=CANCELED, canceled=1)
CancelMark(c) ==
    /\ cpc[c] = "c_mark"
    /\ HSet(cjob[c], [state |-> "CANCELED", canceled |-> "1"])
    /\ cpc' = [cpc EXCEPT ![c] = "idle"]
    /\ coutcome' = [coutcome EXCEPT ![c] = "cancel_requested"]
    /\ UNCHANGED <<stream, dlq, lastDelivered, pel, nextId, nextJob,
                   cjob, cdepth, cstate, workerVars, ghostVars>>
    /\ UNCHANGED timeVars

-----------------------------------------------------------------------------
\* indices of the main stream a reader that ignores the group's position sees
AllEntries == {i \in 1..Len(stream) : TRUE}
\* XREADGROUP ... ">": the entries never delivered to the group
UndeliveredAgain == 1..Len(stream)
Undelivered == {i \in 1..Len(stream) : stream[i].id > lastDelivered}

CancelNeverObserved(r) == FALSE
\* record.get("canceled", "0") == "1"
CancelObserved(r) == Field(r, "canceled", "0") = "1"

MessageRetriesDropped(m) == 0
\* int(message.fields.get("retries", ...))
MessageRetries(m) == m.retries

Min(a, b) == IF a <= b THEN a ELSE b

ReadCountAll(n, avail) == avail
\* XREADGROUP COUNT n: at most n of the undelivered entries
ReadCount(n, avail) == Min(n, avail)

\* read(consumer_name, count=n) with a non-empty reply: the n oldest
\* undelivered entries go to this consumer and into the PEL
ReadGroup(w, n) ==
    LET first == CHOOSE x \in Undelivered : \A y \in Undelivered : x <= y
        k == ReadCount(n, Cardinality(Undelivered))
        batch == SubSeq(stream, first, first + k - 1)
        ids == {batch[i].id : i \in 1..k}
    IN /\ wmsg' = [wmsg EXCEPT ![w] = batch[1]]
       /\ wbatch' = [wbatch EXCEPT ![w] = Tail(batch)]
       /\ wread' = [wread EXCEPT ![w] = k]
       /\ wcount' = [wcount EXCEPT ![w] = 0]
       /\ lastDelivered' = IF batch[k].id > lastDelivered
                           THEN batch[k].id ELSE lastDelivered
       /\ pel' = pel \cup ids
       /\ acks' = [i \in 1..MaxMsgs |-> IF i \in ids THEN 0 ELSE acks[i]]
       /\ wlate' = [wlate EXCEPT ![w] =
                      {batch[i].id : i \in
                          {x \in 1..k : /\ batch[x].job # 0
                                        /\ Field(rec[batch[x].job], "canceled", "0") = "1"}}]
       /\ wpc' = [wpc EXCEPT ![w] = "get"]

\* run_worker_forever -> run_worker_once(max_items=1) -> read(count=1); an
\* empty reply changes nothing and the loop reads again
WRead(w) ==
    /\ wpc[w] = "idle"
    /\ wonce[w] = "forever"
    /\ Undelivered # {}
    /\ ReadGroup(w, 1)
    /\ UNCHANGED <<werr, wpayload, wonce, wret, wio>>
    /\ UNCHANGED <<rec, stream, dlq, nextId, clientVars, succeededWrites, reenqueued, attempts>>
    /\ UNCHANGED timeVars

\* run_worker_once(w, n) called directly: ConfigurationError before any read
\* when n < 1; 0 returned on an empty reply; else the reply is processed
WOnceCall(w, n) ==
    /\ wpc[w] = "idle"
    /\ wonce[w] = "once"
    /\ IF n < 1
       THEN /\ wonce' = [wonce EXCEPT ![w] = "config_error"]
            /\ UNCHANGED <<lastDelivered, pel, acks, wpc, wmsg, wbatch, wread,
                           wcount, wlate, wret>>
       ELSE IF Undelivered = {}
       THEN /\ wonce' = [wonce EXCEPT ![w] = "returned"]
            /\ wret' = [wret EXCEPT ![w] = 0]
            /\ UNCHANGED <<lastDelivered, pel, acks, wpc, wmsg, wbatch, wread,
                           wcount, wlate>>
       ELSE /\ ReadGroup(w, n)
            /\ UNCHANGED <<wonce, wret>>
    /\ UNCHANGED <<werr, wpayload, wio>>
    /\ UNCHANGED <<rec, stream, dlq, nextId, clientVars, succeededWrites, reenqueued, attempts>>
    /\ UNCHANGED timeVars

\* _process_message: no job_id -> ack; else get_job_record and the branches on
\* what it returned; payload_json is the message's, else the record's
WGet(w) ==
    /\ wpc[w] = "get"
    /\ wpc' = [wpc EXCEPT ![w] =
                 IF wmsg[w].job = 0 THEN "ack"
                 ELSE IF ~Exists(wmsg[w].job) THEN "ack"
                 ELSE IF CancelObserved(rec[wmsg[w].job]) THEN "cancel"
                 ELSE "run"]
    /\ wpayload' = [wpayload EXCEPT ![w] =
                      IF wmsg[w].payload # "" THEN wmsg[w].payload
                      ELSE IF wmsg[w].job = 0 THEN ""
                      ELSE Field(rec[wmsg[w].job], "payload_json", "")]
    /\ UNCHANGED <<redisVars, clientVars, wmsg, werr, wlate, callVars, ghostVars>>
    /\ UNCHANGED timeVars

\* canceled == "1": mark_canceled
WMarkCanceled(w) ==
    /\ wpc[w] = "cancel"
    /\ HSet(wmsg[w].job, [state |-> "CANCELED", canceled |-> "1"])
    /\ wpc' = [wpc EXCEPT ![w] = "ack"]
    /\ UNCHANGED <<stream, dlq, lastDelivered, pel, nextId, clientVars,
                   wmsg, werr, wlate, wpayload, callVars, ghostVars>>
    /\ UNCHANGED timeVars

\* mark_running(job_id, retries)
WMarkRunning(w) ==
    /\ wpc[w] = "run"
    /\ HSet(wmsg[w].job, [state |-> "RUNNING", retries |-> MessageRetries(wmsg[w])])
    /\ wpc' = [wpc EXCEPT ![w] = "exec"]
    /\ UNCHANGED <<stream, dlq, lastDelivered, pel, nextId, clientVars,
                   wmsg, werr, wlate, wpayload, callVars, ghostVars>>
    /\ UNCHANGED timeVars

\* payload_json empty: mark_failed(job_id, "payload_json is empty", retries);
\* move_to_dlq(message, "payload_json-empty") follows
WPayloadEmpty(w) ==
    /\ wpc[w] = "exec"
    /\ wpayload[w] = ""
    /\ HSet(wmsg[w].job,
            [state |-> "FAILED", retries |-> MessageRetries(wmsg[w]),
             last_error |-> "payload_json is empty"])
    /\ wpc' = [wpc EXCEPT ![w] = "dlq"]
    /\ werr' = [werr EXCEPT ![w] = "payload_json-empty"]
    /\ UNCHANGED <<stream, dlq, lastDelivered, pel, nextId, clientVars,
                   wmsg, wlate, wpayload, callVars, ghostVars>>
    /\ UNCHANGED timeVars

SucceededMappingNoState(result) == [result_json |-> result, last_error |-> ""]
SucceededMappingKeepsError(result) == [state |-> "SUCCEEDED", result_json |-> result]
\* mark_succeeded: the mapping it writes (result_json stands for json.dumps of
\* the result: the result itself, or "result" where its content plays no part)
SucceededMapping(result) ==
    [state |-> "SUCCEEDED", result_json |-> result, last_error |-> ""]

\* _build_filtered_result returned result: mark_succeeded
WMarkSucceededWith(w, result) ==
    /\ wpc[w] = "exec"
    /\ wpayload[w] # ""
    /\ HSet(wmsg[w].job, SucceededMapping(result))
    /\ succeededWrites' = [succeededWrites EXCEPT ![wmsg[w].job] = @ + 1]
    /\ attempts' = [attempts EXCEPT ![wmsg[w].job] = @ + 1]
    /\ wpc' = [wpc EXCEPT ![w] = "ack"]
    /\ UNCHANGED <<stream, dlq, lastDelivered, pel, nextId, clientVars,
                   wmsg, werr, wlate, wpayload, callVars, reenqueued, acks>>
    /\ UNCHANGED timeVars

\* the pipeline and the filter returned: mark_succeeded
WMarkSucceeded(w) == WMarkSucceededWith(w, "result")

RetryAllowedBelow(next_retry) == next_retry < max_retries
\* if next_retry <= self._queue.config.max_retries
RetryAllowed(next_retry) == next_retry <= max_retries

\* the attempt raised e and next_retry <= max_retries: mark_pending_retry
WMarkPendingRetry(w, e) ==
    /\ wpc[w] = "exec"
    /\ wpayload[w] # ""
    /\ RetryAllowed(MessageRetries(wmsg[w]) + 1)
    /\ HSet(wmsg[w].job,
            [state |-> "PENDING", retries |-> MessageRetries(wmsg[w]) + 1,
             last_error |-> e])
    /\ wpc' = [wpc EXCEPT ![w] = "enq_len"]
    /\ werr' = [werr EXCEPT ![w] = e]
    /\ attempts' = [attempts EXCEPT ![wmsg[w].job] = @ + 1]
    /\ UNCHANGED <<stream, dlq, lastDelivered, pel, nextId, clientVars,
                   wmsg, wlate, wpayload, callVars, succeededWrites, reenqueued, acks>>
    /\ UNCHANGED timeVars

\* the attempt raised e and next_retry > max_retries: mark_failed(next_retry)
WMarkFailed(w, e) ==
    /\ wpc[w] = "exec"
    /\ wpayload[w] # ""
    /\ ~RetryAllowed(MessageRetries(wmsg[w]) + 1)
    /\ HSet(wmsg[w].job,
            [state |-> "FAILED", retries |-> MessageRetries(wmsg[w]) + 1,
             last_error |-> e])
    /\ wpc' = [wpc EXCEPT ![w] = "dlq"]
    /\ werr' = [werr EXCEPT ![w] = e]
    /\ attempts' = [attempts EXCEPT ![wmsg[w].job] = @ + 1]
    /\ UNCHANGED <<stream, dlq, lastDelivered, pel, nextId, clientVars,
                   wmsg, wlate, wpayload, callVars, succeededWrites, reenqueued, acks>>
    /\ UNCHANGED timeVars

DlqFieldsRetriesReset(m, e) ==
    [job |-> m.job, retries |-> 0, payload |-> m.payload,
     moved_at |-> now, error |-> e]
\* fields = dict(message.fields) plus moved_at and error
DlqFields(m, e) ==
    [job |-> m.job, retries |-> m.retries, payload |-> m.payload,
     moved_at |-> now, error |-> e]

\* move_to_dlq: XADD of the message's fields plus moved_at and error to the
\* DLQ stream; the ack is the caller's next call
WMoveToDlq(w) ==
    /\ wpc[w] = "dlq"
    /\ dlq' = Append(dlq, DlqFields(wmsg[w], werr[w]))
    /\ wpc' = [wpc EXCEPT ![w] = "ack"]
    /\ UNCHANGED <<rec, stream, lastDelivered, pel, nextId, clientVars,
                   wmsg, werr, wlate, wpayload, callVars, ghostVars>>
    /\ UNCHANGED timeVars

\* _process_message returns to run_worker_once: processed += 1, then the next
\* message of the reply, or the return of processed (which run_worker_forever
\* drops before it reads again)
Returns(w) ==
    /\ werr' = [werr EXCEPT ![w] = ""]
    /\ wpayload' = [wpayload EXCEPT ![w] = ""]
    /\ wio' = [wio EXCEPT ![w] = NoIO]
    /\ wlate' = [wlate EXCEPT ![w] = @ \ {wmsg[w].id}]
    /\ IF wbatch[w] # <<>>
       THEN /\ wmsg' = [wmsg EXCEPT ![w] = Head(wbatch[w])]
            /\ wbatch' = [wbatch EXCEPT ![w] = Tail(@)]
            /\ wcount' = [wcount EXCEPT ![w] = @ + 1]
            /\ wpc' = [wpc EXCEPT ![w] = "get"]
            /\ UNCHANGED <<wread, wonce, wret>>
       ELSE /\ wmsg' = [wmsg EXCEPT ![w] = NoMsg]
            /\ wpc' = [wpc EXCEPT ![w] = "idle"]
            /\ UNCHANGED wbatch
            /\ IF wonce[w] = "once"
               THEN /\ wcount' = [wcount EXCEPT ![w] = @ + 1]
                    /\ wonce' = [wonce EXCEPT ![w] = "returned"]
                    /\ wret' = [wret EXCEPT ![w] = wcount[w] + 1]
                    /\ UNCHANGED wread
               ELSE /\ wcount' = [wcount EXCEPT ![w] = 0]
                    /\ wread' = [wread EXCEPT ![w] = 0]
                    /\ UNCHANGED <<wonce, wret>>

\* _process_message returning with its message left in the PEL
WReturnUnacked(w) ==
    /\ wpc[w] = "ack"
    /\ Returns(w)
    /\ UNCHANGED <<redisVars, clientVars, ghostVars>>
    /\ UNCHANGED timeVars

\* ack: XACK; _process_message returns
WAck(w) ==
    /\ wpc[w] = "ack"
    /\ pel' = pel \ {wmsg[w].id}
    /\ acks' = [acks EXCEPT ![wmsg[w].id] = @ + 1]
    /\ Returns(w)
    /\ UNCHANGED <<rec, stream, dlq, lastDelivered, nextId, clientVars,
                   succeededWrites, reenqueued, attempts>>
    /\ UNCHANGED timeVars

-----------------------------------------------------------------------------
\* enqueue is called by submit_search (retries=0) and by _process_message
\* (retries=next_retry); p is the caller
Enqueuers == Submitters \cup Workers
EnqPc(p) == IF p \in Workers THEN wpc[p] ELSE cpc[p]
EnqGoto(p, to) ==
    IF p \in Workers
    THEN wpc' = [wpc EXCEPT ![p] = to] /\ UNCHANGED cpc
    ELSE cpc' = [cpc EXCEPT ![p] = to] /\ UNCHANGED wpc

\* enqueue -> _truncate_if_needed: queue_depth (XLEN), return if <= queue_max_len
EnqLen(p) ==
    /\ EnqPc(p) = "enq_len"
    /\ EnqGoto(p, IF QueueDepth <= queue_max_len THEN "enq_add" ELSE "enq_trim")
    /\ UNCHANGED <<redisVars, nextJob, cjob, cdepth, cstate, coutcome, wmsg, werr, wlate, wpayload, callVars, ghostVars>>
    /\ UNCHANGED timeVars

\* _truncate_if_needed: XTRIM
EnqTrim(p) ==
    /\ EnqPc(p) = "enq_trim"
    /\ XTrim
    /\ EnqGoto(p, "enq_add")
    /\ UNCHANGED <<rec, dlq, lastDelivered, pel, nextId, nextJob,
                   cjob, cdepth, cstate, coutcome, wmsg, werr, wlate, wpayload, callVars, ghostVars>>
    /\ UNCHANGED timeVars

RetryPayloadEmpty(w) == ""
\* enqueue(payload_json=payload_json): the local of _process_message, the
\* message's payload_json or else the record's
RetryPayload(w) == wpayload[w]

\* enqueue: XADD.  submit_search then returns SearchJobAccepted; the worker
\* sleeps its backoff and goes on to ack
EnqAdd(p) ==
    /\ EnqPc(p) = "enq_add"
    /\ IF p \in Workers
       THEN /\ XAdd(wmsg[p].job, MessageRetries(wmsg[p]) + 1, RetryPayload(p))
            /\ reenqueued' = [reenqueued EXCEPT ![wmsg[p].job] = @ + 1]
            /\ EnqGoto(p, "ack")
            /\ UNCHANGED coutcome
       ELSE /\ XAdd(cjob[p], 0, "p")
            /\ EnqGoto(p, "idle")
            /\ coutcome' = [coutcome EXCEPT ![p] = "accepted"]
            /\ UNCHANGED reenqueued
    /\ UNCHANGED <<rec, dlq, lastDelivered, pel, nextJob,
                   cjob, cdepth, cstate, wmsg, werr, wlate, wpayload, callVars,
                   succeededWrites, attempts, acks>>
    /\ UNCHANGED timeVars

-----------------------------------------------------------------------------
Next ==
    \/ \E c \in Submitters : SubmitGuard(c)
    \/ \E c \in Submitters : SubmitRejected(c)
    \/ \E c \in Submitters : SubmitCreate(c)
    \/ \E c \in Cancelers, j \in Jobs : CancelGet(c, j)
    \/ \E c \in Cancelers : CancelFlag(c)
    \/ \E c \in Cancelers : CancelMark(c)
    \/ \E w \in Workers : WRead(w)
    \/ \E w \in Workers : WGet(w)
    \/ \E w \in Workers : WMarkCanceled(w)
    \/ \E w \in Workers : WMarkRunning(w)
    \/ \E w \in Workers : WMarkSucceeded(w)
    \/ \E w \in Workers, e \in Errors : WMarkPendingRetry(w, e)
    \/ \E p \in Enqueuers : EnqLen(p)
    \/ \E p \in Enqueuers : EnqTrim(p)
    \/ \E p \in Enqueuers : EnqAdd(p)
    \/ \E w \in Workers, e \in Errors : WMarkFailed(w, e)
    \/ \E w \in Workers : WMoveToDlq(w)
    \/ \E w \in Workers : WAck(w)

Spec == Init /\ [][Next]_vars

-----------------------------------------------------------------------------
\* run_worker_once called directly, on whatever the main stream and the job
\* hash hold at that moment.  The entries are those any producer can have
\* appended: with or without a job_id, with or without payload_json; the
\* hash of job 1 is absent, or present with canceled 0 or 1 and with or
\* without payload_json; a prefix of the stream was delivered and ACKed before.
OnceCallers == {"w1"}

OnceEntries ==
    {[job |-> 0, retries |-> 0, payload |-> ""]}
    \cup {[job |-> 1, retries |-> r, payload |-> pl] :
              r \in 0..max_retries, pl \in {"", "p"}}

OnceRecords ==
    {NoRecord}
    \cup {[NewRecord EXCEPT !.canceled = cn, !.payload_json = pl] :
              cn \in {"0", "1"}, pl \in {"", "p"}}

RECURSIVE OnceStreams(_)
OnceStreams(n) ==
    IF n = 0 THEN {<<>>}
    ELSE OnceStreams(n - 1)
         \cup {Append(q, [id |-> n, job |-> e.job, retries |-> e.retries,
                          payload |-> e.payload]) :
                   q \in {x \in OnceStreams(n - 1) : Len(x) = n - 1},
                   e \in OnceEntries}

InitOnce ==
    /\ now = 0
    /\ \E r \in OnceRecords :
          rec = [j \in JobIds |-> IF j = 1 THEN r ELSE NoRecord]
    /\ stream \in OnceStreams(queue_max_len)
    /\ dlq = <<>>
    /\ lastDelivered \in 0..Len(stream)
    /\ pel = {}
    /\ nextId = Len(stream)
    /\ nextJob = 1
    /\ cpc = [c \in Clients |-> "idle"]
    /\ cjob = [c \in Clients |-> 0]
    /\ cdepth = [c \in Clients |-> 0]
    /\ cstate = [c \in Clients |-> "-"]
    /\ coutcome = [c \in Clients |-> "none"]
    /\ wpc = [w \in Workers |-> "idle"]
    /\ wmsg = [w \in Workers |-> NoMsg]
    /\ werr = [w \in Workers |-> ""]
    /\ wlate = [w \in Workers |-> {}]
    /\ wpayload = [w \in Workers |-> ""]
    /\ wbatch = [w \in Workers |-> <<>>]
    /\ wread = [w \in Workers |-> 0]
    /\ wcount = [w \in Workers |-> 0]
    /\ wonce = [w \in Workers |-> "once"]
    /\ wret = [w \in Workers |-> 0]
    /\ wio = [w \in Workers |-> NoIO]
    /\ ttl = [j \in JobIds |-> 0 - 1]
    /\ lastWrite = [j \in JobIds |-> 0 - 1]
    /\ kpc = "idle"
    /\ bk = NoBackoff
    /\ req = NoRequest
    /\ succeededWrites = [j \in JobIds |-> 0]
    /\ reenqueued = [j \in JobIds |-> 0]
    /\ attempts = [j \in JobIds |-> 0]
    /\ acks = [i \in 1..MaxMsgs |-> IF i <= lastDelivered THEN 1 ELSE 0 - 1]

NextOnce ==
    \/ \E w \in OnceCallers, n \in (0 - 1)..MaxItems : WOnceCall(w, n)
    \/ \E w \in Workers : WGet(w)
    \/ \E w \in Workers : WMarkCanceled(w)
    \/ \E w \in Workers : WMarkRunning(w)
    \/ \E w \in Workers : WPayloadEmpty(w)
    \/ \E w \in Workers : WMarkSucceeded(w)
    \/ \E w \in Workers, e \in Errors : WMarkPendingRetry(w, e)
    \/ \E p \in Workers : EnqLen(p)
    \/ \E p \in Workers : EnqTrim(p)
    \/ \E p \in Workers : EnqAdd(p)
    \/ \E w \in Workers, e \in Errors : WMarkFailed(w, e)
    \/ \E w \in Workers : WMoveToDlq(w)
    \/ \E w \in Workers : WAck(w)

SpecOnce == InitOnce /\ [][NextOnce]_vars

-----------------------------------------------------------------------------
\* Record expiry.  The job key has a TTL (EXPIRE result_ttl_sec); when it runs
\* out Redis deletes the key, whatever a worker or cancel_job is doing.
KeyExpires(j) ==
    /\ Exists(j)
    /\ rec' = [rec EXCEPT ![j] = NoRecord]
    /\ UNCHANGED <<stream, dlq, lastDelivered, pel, nextId, clientVars,
                   workerVars, ghostVars>>
    /\ UNCHANGED timeVars

\* run_worker_once and cancel_job on a job whose key may expire at any time
NextExpire ==
    \/ NextOnce
    \/ \E c \in Cancelers, j \in 1..MaxJobs : CancelGet(c, j)
    \/ \E c \in Cancelers : CancelFlag(c)
    \/ \E c \in Cancelers : CancelMark(c)
    \/ \E j \in Jobs : KeyExpires(j)

SpecExpire == InitOnce /\ [][NextExpire]_vars

-----------------------------------------------------------------------------
\* Concurrent submit_search calls.  Each racer calls submit_search once; one
\* worker runs run_worker_forever and every attempt succeeds.
TrimWorkers == {"w1"}

\* a racer's single call to submit_search
RaceSubmit(c) == coutcome[c] = "none" /\ SubmitGuard(c)

RacerStep ==
    \/ \E c \in Racers : RaceSubmit(c)
    \/ \E c \in Racers : SubmitRejected(c)
    \/ \E c \in Racers : SubmitCreateWithin(c, MaxRaceJobs)
    \/ \E c \in Racers : EnqLen(c)
    \/ \E c \in Racers : EnqTrim(c)
    \/ \E c \in Racers : EnqAdd(c)

TrimWorkerStep ==
    \/ \E w \in TrimWorkers : WRead(w)
    \/ \E w \in TrimWorkers : WGet(w)
    \/ \E w \in TrimWorkers : WMarkRunning(w)
    \/ \E w \in TrimWorkers : WMarkSucceeded(w)
    \/ \E w \in TrimWorkers : WAck(w)

NextTrim == RacerStep \/ TrimWorkerStep

SpecTrim == Init /\ [][NextTrim]_vars

\* run_worker_forever keeps calling run_worker_once and every call made
\* returns: a worker step that stays possible is taken, and so is a step of a
\* submit_search call in progress
SpecTrimFair ==
    /\ Init /\ [][NextTrim]_vars
    /\ WF_vars(TrimWorkerStep)
    /\ WF_vars(RacerStep)

-----------------------------------------------------------------------------
\* _build_filtered_result.  Candidates are SearchCandidate values (score is in
\* halves, so 2 is 1.0), decisions are SearchFilterDecision values as the
\* judge's JSON array decodes to them.
NodeIds == {"a", "b"}
ForeignIds == {"z"}
\* node_ids in the order sorted() gives them
IdOrder == <<"a", "b", "z">>
\* paths with their rank in string order
PathRank == [p \in {"p1", "p2"} |-> IF p = "p1" THEN 1 ELSE 2]

PipelineCandidates ==
    {[node_id |-> "a", path |-> "p1", score |-> 2, content |-> "a-p1"],
     [node_id |-> "a", path |-> "p2", score |-> 2, content |-> "a-p2"],
     [node_id |-> "b", path |-> "p1", score |-> 2, content |-> "b-p1"],
     [node_id |-> "b", path |-> "p2", score |-> 1, content |-> "b-p2"],
     [node_id |-> "b", path |-> "p1", score |-> 3, content |-> "b-high"]}

ScoreAny(score) == TRUE
\* score: float = Field(ge=0.0, le=1.0), in halves
ScoreInRange(score) == score >= 0 /\ score <= 2

\* candidates = [SearchCandidate.model_validate(item) for item in
\* raw_candidates]: the message of the error raised, "" when all validate
CandidateError(cands) ==
    IF \E i \in 1..Len(cands) : ~ScoreInRange(cands[i].score)
    THEN "invalid candidate"
    ELSE ""

JudgeDecisions ==
    [node_id : NodeIds \cup ForeignIds, keep : BOOLEAN, reason : {"r1"}]
    \cup {[node_id |-> "a", keep |-> TRUE, reason |-> "r2"],
          [node_id |-> "a", keep |-> TRUE, reason |-> ""]}

RECURSIVE SeqsUpTo(_, _)
SeqsUpTo(S, n) ==
    IF n = 0 THEN {<<>>}
    ELSE SeqsUpTo(S, n - 1)
         \cup {Append(q, x) : q \in {y \in SeqsUpTo(S, n - 1) : Len(y) = n - 1},
                              x \in S}

CandidateLists == SeqsUpTo(PipelineCandidates, MaxCandidates)
JudgeReplies == SeqsUpTo(JudgeDecisions, Cardinality(NodeIds))

\* ", ".join(sorted(ids))
RECURSIVE JoinFrom(_, _, _)
JoinFrom(ids, i, first) ==
    IF i > Len(IdOrder) THEN ""
    ELSE IF IdOrder[i] \in ids
    THEN (IF first THEN "" ELSE ", ") \o IdOrder[i] \o JoinFrom(ids, i + 1, FALSE)
    ELSE JoinFrom(ids, i + 1, first)
JoinIds(ids) == JoinFrom(ids, 1, TRUE)

\* expected_ids = {candidate.node_id for candidate in candidates}
ExpectedIds(cands) == {cands[i].node_id : i \in 1..Len(cands)}

\* _validate_decisions with a message that does not name the missing node_ids
RECURSIVE ValidateFromUnnamed(_, _, _)
ValidateFromUnnamed(expected, ds, seen) ==
    IF ds = <<>>
    THEN IF expected \ seen # {} THEN "missing node_id" ELSE ""
    ELSE IF Head(ds).node_id \notin expected
    THEN "node_id not among the candidates: " \o Head(ds).node_id
    ELSE IF Head(ds).node_id \in seen
    THEN "duplicated node_id: " \o Head(ds).node_id
    ELSE ValidateFromUnnamed(expected, Tail(ds), seen \cup {Head(ds).node_id})

\* _validate_decisions: the message of the error it raises, "" when it returns
RECURSIVE ValidateFrom(_, _, _)
ValidateFrom(expected, ds, seen) ==
    IF ds = <<>>
    THEN IF expected \ seen # {}
         THEN "missing node_id: " \o JoinIds(expected \ seen)
         ELSE ""
    ELSE IF Head(ds).node_id \notin expected
    THEN "node_id not among the candidates: " \o Head(ds).node_id
    ELSE IF Head(ds).node_id \in seen
    THEN "duplicated node_id: " \o Head(ds).node_id
    ELSE ValidateFrom(expected, Tail(ds), seen \cup {Head(ds).node_id})
ValidateDecisions(cands, ds) == ValidateFrom(ExpectedIds(cands), ds, {})

\* LangChainSearchFilterLLM.filter on the decoded array: model_validate of
\* every item (reason has min_length 1), then _validate_decisions
FilterError(cands, ds) ==
    IF \E i \in 1..Len(ds) : ds[i].reason = ""
    THEN "invalid decision"
    ELSE ValidateDecisions(cands, ds)

\* _to_decision_map on decisions that passed: node_id -> its decision
DecisionMap(ds) ==
    [id \in {ds[i].node_id : i \in 1..Len(ds)} |->
        ds[CHOOSE i \in 1..Len(ds) : ds[i].node_id = id]]

\* the loop over candidates without "if not decision.keep: continue"
RECURSIVE KeptAll(_, _)
KeptAll(cands, ds) ==
    IF cands = <<>> THEN <<>>
    ELSE LET c == Head(cands)
             d == DecisionMap(ds)[c.node_id]
         IN <<[node_id |-> c.node_id, path |-> c.path, score |-> c.score,
               content |-> c.content, reason |-> d.reason]>>
            \o KeptAll(Tail(cands), ds)

\* the loop over candidates: those decided keep, each with the decision's reason
RECURSIVE Kept(_, _)
Kept(cands, ds) ==
    IF cands = <<>> THEN <<>>
    ELSE LET c == Head(cands)
             d == DecisionMap(ds)[c.node_id]
         IN (IF d.keep
             THEN <<[node_id |-> c.node_id, path |-> c.path, score |-> c.score,
                     content |-> c.content, reason |-> d.reason]>>
             ELSE <<>>) \o Kept(Tail(cands), ds)

\* key=lambda item: (-item.score, item.path): x sorts strictly before y
Before(x, y) ==
    \/ x.score > y.score
    \/ x.score = y.score /\ PathRank[x.path] < PathRank[y.path]

\* list.sort is stable: x goes before the first element it sorts strictly before
Insert(x, sorted) ==
    IF \E i \in 1..Len(sorted) : Before(x, sorted[i])
    THEN LET i == CHOOSE k \in 1..Len(sorted) :
                      /\ Before(x, sorted[k])
                      /\ \A l \in 1..(k - 1) : ~Before(x, sorted[l])
         IN SubSeq(sorted, 1, i - 1) \o <<x>> \o SubSeq(sorted, i, Len(sorted))
    ELSE Append(sorted, x)

RECURSIVE SortFrom(_, _)
SortFrom(items, sorted) ==
    IF items = <<>> THEN sorted
    ELSE SortFrom(Tail(items), Insert(Head(items), sorted))
Unsorted(items) == items
\* kept.sort(key=...)
Sort(items) == SortFrom(items, <<>>)

TruncateNever(items, top_k) == items
\* if len(kept) > top_k: kept = kept[:top_k]
Truncate(items, top_k) ==
    IF Len(items) > top_k THEN SubSeq(items, 1, top_k) ELSE items

\* _build_filtered_result on the pipeline's output and the judge's decisions:
\* the message of the error raised ("" when none) and the result returned
BuildFilteredResult(io) ==
    IF CandidateError(io.candidates) # ""
    THEN [error |-> CandidateError(io.candidates), result |-> <<>>]
    ELSE IF io.candidates = <<>>
    THEN [error |-> "",
          result |-> [candidates |-> <<>>,
                      metrics |-> [entry_count |-> io.metrics.entry_count,
                                   page_count |-> io.metrics.page_count,
                                   kept_count |-> 0,
                                   elapsed_ms |-> io.metrics.elapsed_ms]]]
    ELSE IF FilterError(io.candidates, io.decisions) # ""
    THEN [error |-> FilterError(io.candidates, io.decisions), result |-> <<>>]
    ELSE LET kept == Truncate(Sort(Kept(io.candidates, io.decisions)), io.top_k)
         IN [error |-> "",
             result |-> [candidates |-> kept,
                         metrics |-> [entry_count |-> io.metrics.entry_count,
                                      page_count |-> io.metrics.page_count,
                                      kept_count |-> Len(kept),
                                      elapsed_ms |-> io.metrics.elapsed_ms]]]

\* execute_search_job returned: candidates and metrics; top_k is the payload's
WPipeline(w, cands, top_k) ==
    /\ wpc[w] = "exec"
    /\ wpayload[w] # ""
    /\ ~wio[w].ran
    /\ wio' = [wio EXCEPT ![w] =
                 [candidates |-> cands, top_k |-> top_k,
                  metrics |-> [entry_count |-> 1, page_count |-> Len(cands),
                               elapsed_ms |-> 7],
                  decisions |-> <<>>, ran |-> TRUE, judged |-> FALSE]]
    /\ UNCHANGED <<redisVars, clientVars, wpc, wmsg, werr, wlate, wpayload,
                   wbatch, wread, wcount, wonce, wret, ghostVars>>
    /\ UNCHANGED timeVars

JudgeAlways(io) == TRUE
\* the candidates validate, and "if not candidates: return ..." comes before
\* the call of the judge
JudgeNeeded(io) == CandidateError(io.candidates) = "" /\ io.candidates # <<>>

\* self._filter_llm.filter: the judge replied with the array ds
WJudge(w, ds) ==
    /\ wpc[w] = "exec"
    /\ wio[w].ran /\ ~wio[w].judged
    /\ JudgeNeeded(wio[w])
    /\ wio' = [wio EXCEPT ![w] = [@ EXCEPT !.decisions = ds, !.judged = TRUE]]
    /\ UNCHANGED <<redisVars, clientVars, wpc, wmsg, werr, wlate, wpayload,
                   wbatch, wread, wcount, wonce, wret, ghostVars>>
    /\ UNCHANGED timeVars

\* the attempt ends: mark_succeeded with the result, or the except branch
\* with error_message = str(exc)
WFilterDone(w) ==
    /\ wio[w].ran
    /\ wio[w].judged \/ ~JudgeNeeded(wio[w])
    /\ IF BuildFilteredResult(wio[w]).error = ""
       THEN WMarkSucceededWith(w, BuildFilteredResult(wio[w]).result)
       ELSE \/ WMarkPendingRetry(w, BuildFilteredResult(wio[w]).error)
            \/ WMarkFailed(w, BuildFilteredResult(wio[w]).error)

\* one job submitted; a worker runs its attempts on any pipeline output and
\* any reply of the judge
FilterWorkers == {"w1"}

InitFilter ==
    /\ now = 0
    /\ rec = [j \in JobIds |-> IF j = 1 THEN NewRecord ELSE NoRecord]
    /\ stream = <<[id |-> 1, job |-> 1, retries |-> 0, payload |-> "p"]>>
    /\ dlq = <<>>
    /\ lastDelivered = 0
    /\ pel = {}
    /\ nextId = 1
    /\ nextJob = 1
    /\ cpc = [c \in Clients |-> "idle"]
    /\ cjob = [c \in Clients |-> 0]
    /\ cdepth = [c \in Clients |-> 0]
    /\ cstate = [c \in Clients |-> "-"]
    /\ coutcome = [c \in Clients |-> "none"]
    /\ wpc = [w \in Workers |-> "idle"]
    /\ wmsg = [w \in Workers |-> NoMsg]
    /\ werr = [w \in Workers |-> ""]
    /\ wlate = [w \in Workers |-> {}]
    /\ wpayload = [w \in Workers |-> ""]
    /\ wbatch = [w \in Workers |-> <<>>]
    /\ wread = [w \in Workers |-> 0]
    /\ wcount = [w \in Workers |-> 0]
    /\ wonce = [w \in Workers |-> "forever"]
    /\ wret = [w \in Workers |-> 0]
    /\ wio = [w \in Workers |-> NoIO]
    /\ ttl = [j \in JobIds |-> 0 - 1]
    /\ lastWrite = [j \in JobIds |-> 0 - 1]
    /\ kpc = "idle"
    /\ bk = NoBackoff
    /\ req = NoRequest
    /\ succeededWrites = [j \in JobIds |-> 0]
    /\ reenqueued = [j \in JobIds |-> 0]
    /\ attempts = [j \in JobIds |-> 0]
    /\ acks = [i \in 1..MaxMsgs |-> 0 - 1]

NextFilter ==
    \/ \E w \in FilterWorkers : WRead(w)
    \/ \E w \in FilterWorkers : WGet(w)
    \/ \E w \in FilterWorkers : WMarkRunning(w)
    \/ \E w \in FilterWorkers, cands \in CandidateLists, k \in 1..2 :
          WPipeline(w, cands, k)
    \/ \E w \in FilterWorkers, ds \in JudgeReplies : WJudge(w, ds)
    \/ \E w \in FilterWorkers : WFilterDone(w)
    \/ \E w \in FilterWorkers : EnqLen(w)
    \/ \E w \in FilterWorkers : EnqAdd(w)
    \/ \E w \in FilterWorkers : WMoveToDlq(w)
    \/ \E w \in FilterWorkers : WAck(w)

SpecFilter == InitFilter /\ [][NextFilter]_vars

-----------------------------------------------------------------------------
\* The job hash and its TTL.  create_job_record and update_job_record send two
\* commands, HSET and then EXPIRE; the clock may tick between them.  ttl[j] is
\* the key's remaining seconds (-1: no TTL set), lastWrite[j] the time of the
\* last HSET on it.
TtlJobs == {1}

\* the mappings of mark_running, mark_succeeded, mark_failed,
\* mark_pending_retry, mark_canceled and mark_cancel_requested
UpdateMappings ==
    {[state |-> "RUNNING", retries |-> 0],
     SucceededMapping("result"),
     [state |-> "FAILED", retries |-> 1, last_error |-> "boom"],
     [state |-> "PENDING", retries |-> 1, last_error |-> "boom"],
     [state |-> "CANCELED", canceled |-> "1"],
     [canceled |-> "1"]}

\* create_job_record: self._redis.hset(key, mapping=mapping)
KCreateHSet(j) ==
    /\ kpc = "idle"
    /\ lastWrite[j] = 0 - 1
    /\ rec' = [rec EXCEPT ![j] = NewRecord]
    /\ lastWrite' = [lastWrite EXCEPT ![j] = now]
    /\ kpc' = "expire"
    /\ UNCHANGED <<stream, dlq, lastDelivered, pel, nextId, clientVars,
                   workerVars, ghostVars, now, ttl, bk, req>>

\* update_job_record: self._redis.hset(key, mapping=normalized); HSET on a key
\* that has expired creates it, without a TTL
KUpdateHSet(j, mapping) ==
    /\ kpc = "idle"
    /\ lastWrite[j] >= 0
    /\ HSet(j, mapping)
    /\ lastWrite' = [lastWrite EXCEPT ![j] = now]
    /\ kpc' = "expire"
    /\ UNCHANGED <<stream, dlq, lastDelivered, pel, nextId, clientVars,
                   workerVars, ghostVars, now, ttl, bk, req>>

\* EXPIRE sets the TTL of an existing key and does nothing on a missing one
ExpireApplies(j) == Exists(j)

\* self._redis.expire(key, self._config.result_ttl_sec)
KExpire(j) ==
    /\ kpc = "expire"
    /\ ttl' = IF ExpireApplies(j) THEN [ttl EXCEPT ![j] = result_ttl_sec] ELSE ttl
    /\ kpc' = "idle"
    /\ UNCHANGED <<redisVars, clientVars, workerVars, ghostVars,
                   now, lastWrite, bk, req>>

\* a second passes: Redis deletes the keys whose TTL runs out
Tick ==
    /\ now < MaxNow
    /\ now' = now + 1
    /\ ttl' = [j \in JobIds |-> IF ttl[j] > 1 THEN ttl[j] - 1
                              ELSE IF ttl[j] = 1 THEN 0 - 1 ELSE ttl[j]]
    /\ rec' = [j \in JobIds |-> IF ttl[j] = 1 THEN NoRecord ELSE rec[j]]
    /\ UNCHANGED <<stream, dlq, lastDelivered, pel, nextId, clientVars,
                   workerVars, ghostVars, lastWrite, kpc, bk, req>>

NextTtl ==
    \/ \E j \in TtlJobs : KCreateHSet(j)
    \/ \E j \in TtlJobs, mapping \in UpdateMappings : KUpdateHSet(j, mapping)
    \/ \E j \in TtlJobs : KExpire(j)
    \/ Tick

SpecTtl == Init /\ [][NextTtl]_vars

-----------------------------------------------------------------------------
\* The backoff of the retry branch, for any retry window the configuration
\* accepts.  bk holds retry_base_ms, retry_max_ms, the last next_retry and the
\* backoff_ms slept for it.
RECURSIVE Pow2(_)
Pow2(n) == IF n = 0 THEN 1 ELSE 2 * Pow2(n - 1)

Max(a, b) == IF a >= b THEN a ELSE b

BackoffExponentNext(next_retry) == next_retry
\* max(0, next_retry - 1)
BackoffExponent(next_retry) == Max(0, next_retry - 1)

\* min(retry_base_ms * (2 ** max(0, next_retry - 1)), retry_max_ms)
BackoffMs(base, max, next_retry) ==
    Min(base * Pow2(BackoffExponent(next_retry)), max)

\* SearchConfig is built: retry_base_ms >= 1, retry_max_ms >= retry_base_ms
BkConfigure(base, max) ==
    /\ bk = NoBackoff
    /\ base >= 1 /\ max >= 1
    /\ max >= base
    /\ bk' = [base |-> base, max |-> max, next |-> 0, slept |-> 0]
    /\ UNCHANGED <<redisVars, clientVars, workerVars, ghostVars,
                   now, ttl, lastWrite, kpc, req>>

\* the next failed attempt of a job: next_retry = retries + 1, and the worker
\* sleeps backoff_ms
BkSleep ==
    /\ bk # NoBackoff
    /\ bk.next < MaxNext
    /\ bk' = [bk EXCEPT !.next = bk.next + 1,
                        !.slept = BackoffMs(bk.base, bk.max, bk.next + 1)]
    /\ UNCHANGED <<redisVars, clientVars, workerVars, ghostVars,
                   now, ttl, lastWrite, kpc, req>>

NextBackoff ==
    \/ \E base \in 1..MaxBaseMs, max \in 1..MaxMaxMs : BkConfigure(base, max)
    \/ BkSleep

SpecBackoff == Init /\ [][NextBackoff]_vars

-----------------------------------------------------------------------------
\* svve_core.schemas.SearchRequest.  A value is what numpy sees of the query
\* argument: its shape (<<>> for a scalar), its dtype and whether it is
\* C-contiguous.
DimSizes == {1, 2}
Dtypes == {"bool", "int64", "float64", "float32"}
TopKValues == 0..2

QueryValues ==
    {v \in [shape : SeqsUpTo(DimSizes, MaxNdim), dtype : Dtypes,
            contiguous : BOOLEAN] :
        \* only an array with more than one element can be non-contiguous
        ~v.contiguous => \E i \in 1..Len(v.shape) : v.shape[i] > 1}

\* np.asarray(value, dtype=np.float32): the value itself when it already is
\* a float32 array, else a new C-contiguous float32 array of the same shape
AsArrayFloat32(v) ==
    IF v.dtype = "float32" THEN v
    ELSE [shape |-> v.shape, dtype |-> "float32", contiguous |-> TRUE]

\* np.ascontiguousarray(a): np.array(a, copy=False, order="C", ndmin=1), a
\* contiguous array with ndim >= 1: a 0-d array becomes an array of shape (1,)
AsContiguous(a) ==
    [shape |-> IF a.shape = <<>> THEN <<1>> ELSE a.shape,
     dtype |-> a.dtype, contiguous |-> TRUE]

\* validate_query: the error raised ("" when none) and the array returned
ValidateQuery(value) ==
    LET query == AsContiguous(AsArrayFloat32(value))
    IN IF Len(query.shape) # 1
       THEN [error |-> "query must be a 1D numpy array", query |-> NoArray]
       ELSE [error |-> "", query |-> query]

\* SearchRequest(query=value, top_k=top_k): the validator of query, then
\* top_k: Field(ge=1)
NewSearchRequest(value, top_k) ==
    /\ req' = [made |-> TRUE, value |-> value, top_k |-> top_k,
               error |-> IF ValidateQuery(value).error # ""
                         THEN ValidateQuery(value).error
                         ELSE IF top_k < 1 THEN "top_k must be >= 1" ELSE "",
               query |-> IF ValidateQuery(value).error = "" /\ top_k >= 1
                         THEN ValidateQuery(value).query ELSE NoArray]
    /\ UNCHANGED <<redisVars, clientVars, workerVars, ghostVars,
                   now, ttl, lastWrite, kpc, bk>>

NextRequest ==
    \E value \in QueryValues, top_k \in TopKValues : NewSearchRequest(value, top_k)

SpecRequest == Init /\ [][NextRequest]_vars

-----------------------------------------------------------------------------
\* submit_search called with any arguments, workers running
NextSubmit ==
    \/ \E c \in Submitters, k \in TopKs, n \in EmbeddingLens : SubmitSearch(c, k, n)
    \/ \E c \in Submitters : SubmitRejected(c)
    \/ \E c \in Submitters : SubmitCreate(c)
    \/ \E w \in Workers : WRead(w)
    \/ \E w \in Workers : WGet(w)
    \/ \E w \in Workers : WMarkRunning(w)
    \/ \E w \in Workers : WMarkSucceeded(w)
    \/ \E w \in Workers, e \in Errors : WMarkPendingRetry(w, e)
    \/ \E p \in Enqueuers : EnqLen(p)
    \/ \E p \in Enqueuers : EnqTrim(p)
    \/ \E p \in Enqueuers : EnqAdd(p)
    \/ \E w \in Workers, e \in Errors : WMarkFailed(w, e)
    \/ \E w \in Workers : WMoveToDlq(w)
    \/ \E w \in Workers : WAck(w)

SpecSubmit == Init /\ [][NextSubmit]_vars

-----------------------------------------------------------------------------
\* Claims

State(j) == Field(rec[j], "state", "PENDING")

\* C1 (stated as in the claim): terminal stability.  Once the record of a job
\* shows SUCCEEDED, FAILED or CANCELED, no step changes that state.
C1_TerminalStable ==
    [][\A j \in Jobs :
         (Exists(j) /\ State(j) \in Terminal) => rec'[j].state = rec[j].state]_vars

\* C2 (stated as in the claim): in every state, every existing record has a
\* non-empty result_json if and only if its state is SUCCEEDED.
C2_ResultIffSucceeded ==
    \A j \in Jobs :
        Exists(j) => (rec[j].result_json # "" <=> rec[j].state = "SUCCEEDED")

AllowedEdge(r, r2) ==
    \/ r.state = "PENDING" /\ r2.state = "RUNNING"
    \/ r.state = "RUNNING" /\ r2.state \in {"SUCCEEDED", "FAILED", "PENDING"}
    \/ r.state \in {"PENDING", "RUNNING"} /\ r2.state = "CANCELED" /\ r2.canceled = "1"

\* C3 (stated as in the claim): every change of a record's state field is
\* PENDING->RUNNING, RUNNING->SUCCEEDED, RUNNING->FAILED, RUNNING->PENDING, or
\* PENDING/RUNNING->CANCELED with canceled=1.
C3_OnlyAllowedEdges ==
    [][\A j \in Jobs :
         (Exists(j) /\ rec'[j].state # rec[j].state) => AllowedEdge(rec[j], rec'[j])]_vars

\* C4: mark_succeeded is performed at most once for each job, with two workers
\* in the consumer group and with retries.
C4_AtMostOneSuccess ==
    \A j \in Jobs : succeededWrites[j] <= 1

\* C4 witness: a job succeeded on a retried attempt.
C4_Witness ==
    \E j \in Jobs : succeededWrites[j] = 1 /\ reenqueued[j] >= 1

\* C5: the retries field of a record never decreases in any step.
C5_RetriesMonotonic ==
    [][\A j \in Jobs : Exists(j) => rec'[j].retries >= rec[j].retries]_vars

\* C5 witness: a worker runs a retried attempt (retries >= 1 written by
\* mark_running) while the worker of the failed attempt still holds its message.
C5_Witness ==
    \E w1, w2 \in Workers :
        /\ w1 # w2
        /\ wpc[w1] = "exec" /\ wmsg[w1].retries >= 1
        /\ wpc[w2] = "ack" /\ wmsg[w2].job = wmsg[w1].job
        /\ rec[wmsg[w1].job].state = "RUNNING"
        /\ rec[wmsg[w1].job].retries = wmsg[w1].retries

\* a worker is between mark_pending_retry and the XADD of enqueue for job j
MidRetry(j) ==
    \E w \in Workers :
        wpc[w] \in {"enq_len", "enq_trim", "enq_add"} /\ wmsg[w].job = j

\* C6 (stated as in the claim, read outside the retry step itself): the retries
\* field of a record equals the number of times the job was re-enqueued after a
\* failed attempt, also once the job has ended FAILED.
C6_RetriesEqualReenqueues ==
    \A j \in Jobs :
        (Exists(j) /\ ~MidRetry(j)) => rec[j].retries = reenqueued[j]

\* C7: a submit_search call that is past guard_capacity, or has returned an
\* accepted job, read a depth below queue_reject_at; a finished call that read
\* a depth >= queue_reject_at ended queue-overloaded.
C7_BackpressureCap ==
    \A c \in Submitters :
        /\ (cpc[c] \in {"enq_len", "enq_trim", "enq_add"} \/ coutcome[c] = "accepted")
              => cdepth[c] < queue_reject_at
        /\ (cpc[c] = "idle" /\ coutcome[c] # "none" /\ cdepth[c] >= queue_reject_at)
              => coutcome[c] = "overloaded"

\* C7 witness: a call read a depth at the threshold and was refused.
C7_Witness ==
    \E c \in Submitters :
        cpc[c] = "idle" /\ coutcome[c] = "overloaded" /\ cdepth[c] = queue_reject_at

\* C8: the steps of a submit_search call that ends queue-overloaded (the depth
\* read and the raise) leave the main stream, the DLQ and all job records as
\* they were.
C8_RejectChangesNothing ==
    [][\A c \in Submitters :
         ((cpc[c] = "idle" /\ cpc'[c] = "guarded")
             \/ (cpc[c] = "guarded" /\ coutcome'[c] = "overloaded"))
            => (stream' = stream /\ dlq' = dlq /\ rec' = rec /\ nextJob' = nextJob)]_vars

\* C8 witness: a refused call, with a record, a message and a DLQ entry present.
C8_Witness ==
    \E c \in Submitters :
        /\ coutcome[c] = "overloaded"
        /\ Len(stream) >= 1 /\ Len(dlq) >= 1
        /\ \E j \in Jobs : Exists(j)

\* C9 (stated as in the claim): the main stream never holds more than
\* queue_max_len messages.
C9_StreamWithinCap ==
    Len(stream) <= queue_max_len

\* C10 (stated as in the claim): when guard_capacity reads a depth it refuses,
\* at least queue_reject_at messages are still awaiting processing (appended,
\* not yet ACKed).
C10_RejectOnlyWhilePending ==
    [][\A c \in Submitters :
         (cpc[c] = "idle" /\ cpc'[c] = "guarded" /\ GuardRejects(cdepth'[c]))
            => Cardinality(Unacked) >= queue_reject_at]_vars


\* the message a worker holds was read after canceled=1 was written for its job
Late(w) == wmsg[w].id \in wlate[w]
LateNext(w) == wmsg'[w].id \in wlate'[w]

\* C11: when cancel_job on a PENDING job returns, the record shows CANCELED
\* with canceled=1 (what get_job then reads); a worker that dequeues a message
\* of a job whose canceled=1 was already written observes the flag, never
\* reaches mark_running, the pipeline, a retry or the DLQ, writes CANCELED,
\* and ACKs the message with the record still CANCELED.
C11_CancelPendingSticks ==
    [][/\ \A c \in Cancelers :
            (cpc[c] = "c_mark" /\ cpc'[c] = "idle")
                => /\ rec'[cjob[c]].state = "CANCELED"
                   /\ rec'[cjob[c]].canceled = "1"
       /\ \A w \in Workers :
            /\ LateNext(w) => wpc'[w] \in {"get", "cancel", "ack"}
            /\ (Late(w) /\ wpc[w] = "get" /\ wpc'[w] # "get")
                   => (wpc'[w] = "cancel" /\ rec' = rec)
            /\ (Late(w) /\ wpc[w] = "cancel" /\ wpc'[w] # "cancel")
                   => (wpc'[w] = "ack" /\ rec'[wmsg[w].job].state = "CANCELED")
            /\ (Late(w) /\ wpc[w] = "ack" /\ wpc'[w] # "ack")
                   => /\ wpc'[w] = "idle"
                      /\ wmsg[w].id \notin pel'
                      /\ rec'[wmsg[w].job].state = "CANCELED"
                      /\ succeededWrites' = succeededWrites]_vars

C11_Witness ==
    \E w \in Workers, c \in Cancelers :
        /\ Late(w) /\ wpc[w] = "ack"
        /\ cpc[c] = "idle" /\ coutcome[c] = "cancel_requested"
        /\ cstate[c] = "PENDING" /\ cjob[c] = wmsg[w].job
        /\ rec[wmsg[w].job].state = "CANCELED"

\* C12 (stated as in the claim): SUCCEEDED wins.  Once a worker has written
\* SUCCEEDED, no step of a concurrent cancel_job changes the state.
C12_SucceededWins ==
    [][\A j \in Jobs :
         (Exists(j) /\ State(j) = "SUCCEEDED") => rec'[j].state = "SUCCEEDED"]_vars

\* C13: cancel_job by the state it read.  No record: job-not-found, nothing
\* written.  SUCCEEDED, FAILED or CANCELED: no-op return, nothing written.
\* PENDING: it writes canceled=1, then state=CANCELED with canceled=1, and
\* nothing else.  RUNNING: it writes canceled=1 only, leaves the state as it
\* is and returns.
C13_CancelByState ==
    [][\A c \in Cancelers :
         /\ \A j \in Jobs :
              CancelGet(c, j) =>
                /\ rec' = rec /\ stream' = stream /\ dlq' = dlq
                /\ ~Exists(j) => (coutcome'[c] = "not_found" /\ cpc'[c] = "idle")
                /\ (Exists(j) /\ State(j) \in Terminal)
                       => (coutcome'[c] = "already_terminal" /\ cpc'[c] = "idle")
                /\ (Exists(j) /\ State(j) \notin Terminal)
                       => (cpc'[c] = "c_flag" /\ cstate'[c] = State(j))
         /\ (cpc[c] = "c_flag" /\ cpc'[c] # "c_flag") =>
                /\ rec' = [rec EXCEPT ![cjob[c]] = [@ EXCEPT !.canceled = "1"]]
                /\ cstate[c] \in {"PENDING", "RUNNING"}
                /\ cstate[c] = "PENDING" => cpc'[c] = "c_mark"
                /\ cstate[c] = "RUNNING" => cpc'[c] = "idle"
         /\ (cpc[c] = "c_mark" /\ cpc'[c] # "c_mark") =>
                /\ cstate[c] = "PENDING" /\ cpc'[c] = "idle"
                /\ rec' = [rec EXCEPT ![cjob[c]] =
                             [@ EXCEPT !.state = "CANCELED", !.canceled = "1"]]]_vars

C13_Witness ==
    \E c \in Cancelers :
        /\ cpc[c] = "idle" /\ coutcome[c] = "cancel_requested"
        /\ cstate[c] = "RUNNING"
        /\ rec[cjob[c]].state = "RUNNING" /\ rec[cjob[c]].canceled = "1"


DlqEntries(j) == {i \in 1..Len(dlq) : dlq[i].job = j}

\* C14: retry exhaustion.  A job that is FAILED, whose record no cancel_job
\* has written to and whose failing worker is past move_to_dlq, had exactly
\* max_retries + 1 pipeline attempts, none of which succeeded; its last_error
\* is the error the attempts raised and the DLQ holds exactly one entry for
\* it, carrying that same error.
C14_RetryExhaustion ==
    \A j \in Jobs :
        (/\ Exists(j) /\ rec[j].state = "FAILED" /\ rec[j].canceled = "0"
         /\ \A w \in Workers : ~(wpc[w] = "dlq" /\ wmsg[w].job = j))
            => /\ attempts[j] = max_retries + 1
               /\ succeededWrites[j] = 0
               /\ rec[j].last_error \in Errors
               /\ Cardinality(DlqEntries(j)) = 1
               /\ \A i \in DlqEntries(j) : dlq[i].error = rec[j].last_error

C14_Witness ==
    \E j \in Jobs :
        /\ Exists(j) /\ rec[j].state = "FAILED" /\ rec[j].canceled = "0"
        /\ attempts[j] = max_retries + 1
        /\ DlqEntries(j) # {}

\* C15: retry then success.  A job whose first attempt raised and whose second
\* attempt returned, and whose record no cancel_job has written to, has
\* state=SUCCEEDED, retries=1, a non-empty result_json and an empty
\* last_error, and was re-enqueued exactly once.
C15_RetryThenSuccess ==
    \A j \in Jobs :
        (/\ Exists(j) /\ rec[j].canceled = "0"
         /\ attempts[j] = 2 /\ succeededWrites[j] = 1)
            => /\ rec[j].state = "SUCCEEDED"
               /\ rec[j].retries = 1
               /\ rec[j].result_json # ""
               /\ rec[j].last_error = ""
               /\ reenqueued[j] = 1

C15_Witness ==
    \E j \in Jobs :
        /\ Exists(j) /\ rec[j].canceled = "0"
        /\ attempts[j] = 2 /\ succeededWrites[j] = 1
        /\ rec[j].state = "SUCCEEDED"


\* C19 (stated as in the claim): fetch_result's outcomes.  job-expired exactly
\* when no record exists; job-failed carrying last_error when FAILED; for
\* PENDING and RUNNING an outcome that is none of job-expired, job-failed and a
\* result; a result, stamped SUCCEEDED, only when the record is SUCCEEDED;
\* job-failed for CANCELED.
C19_FetchOutcomes ==
    \A j \in Jobs :
        /\ FetchResult(j).kind = "JobExpiredError" <=> ~Exists(j)
        /\ (Exists(j) /\ State(j) = "FAILED")
               => /\ FetchResult(j).kind = "JobFailedError"
                  /\ FetchResult(j).message = rec[j].last_error
        /\ (Exists(j) /\ State(j) \in {"PENDING", "RUNNING"})
               => FetchResult(j).kind
                      \notin {"JobExpiredError", "JobFailedError", "SearchJobResult"}
        /\ FetchResult(j).kind = "SearchJobResult"
               => (State(j) = "SUCCEEDED" /\ FetchResult(j).state = "SUCCEEDED")
        /\ (Exists(j) /\ State(j) = "CANCELED")
               => FetchResult(j).kind = "JobFailedError"

MessagesOf(str, j) == {i \in 1..Len(str) : str[i].job = j}

\* C20: the step on which submit_search returns its job_id leaves the record
\* exactly as create_job_record wrote it (PENDING, retries 0, canceled 0, no
\* result) and appends one message with that job_id and retries 0, the only
\* message of the main stream for that job; and every message in the main
\* stream or in a worker's hands names a job whose record was created before.
C20_SubmitPostcondition ==
    [][/\ \A c \in Submitters :
            (cpc[c] = "enq_add" /\ cpc'[c] = "idle")
                => /\ coutcome'[c] = "accepted"
                   /\ rec'[cjob[c]] = NewRecord
                   /\ stream' = Append(stream, stream'[Len(stream')])
                   /\ stream'[Len(stream')].job = cjob[c]
                   /\ stream'[Len(stream')].retries = 0
                   /\ MessagesOf(stream', cjob[c]) = {Len(stream')}
       /\ \A i \in 1..Len(stream') : rec'[stream'[i].job] # NoRecord
       /\ \A w \in Workers :
            wpc'[w] # "idle" => rec'[wmsg'[w].job] # NoRecord]_vars

C20_Witness ==
    \E c \in Submitters, w \in Workers :
        /\ cpc[c] = "idle" /\ coutcome[c] = "accepted"
        /\ wpc[w] = "get" /\ wmsg[w].job = cjob[c] /\ wmsg[w].retries = 0
        /\ rec[cjob[c]] = NewRecord


\* ids of the messages a worker still has to finish: the one in
\* _process_message and the rest of its reply
HeldIds(w) ==
    (IF wpc[w] = "idle" THEN {} ELSE {wmsg[w].id})
    \cup {wbatch[w][i].id : i \in 1..Len(wbatch[w])}

\* C16: no poison pills.  Every delivered message that no worker is still
\* processing was ACKed exactly once and is out of the PEL; no message is
\* ACKed twice or before _process_message reaches its end; and a
\* run_worker_once call that has returned holds nothing.  Checked on entries
\* without job_id, without record, canceled, without payload, succeeding,
\* retried and exhausted.
C16_AckedExactlyOnce ==
    /\ \A i \in 1..MaxMsgs :
         /\ acks[i] <= 1
         /\ i \in pel <=> acks[i] = 0
         /\ acks[i] = 0 <=> \E w \in Workers : i \in HeldIds(w)
    /\ \A w \in Workers :
         wonce[w] \in {"returned", "config_error"} => HeldIds(w) = {}

C16_Witness ==
    \E w \in Workers :
        /\ wonce[w] = "returned" /\ wret[w] = 2
        /\ pel = {}
        /\ \E i \in 1..Len(dlq) : dlq[i].error = "payload_json-empty"
        /\ \E i \in 1..Len(stream) : stream[i].job = 0 /\ acks[stream[i].id] = 1

\* C17: a run_worker_once call (max_items >= 1) made when the main stream has
\* no undelivered entry returns 0 at once and changes no job record, no entry
\* of the main stream, no DLQ entry and nothing of the consumer group.
C17_EmptyReadChangesNothing ==
    [][\A w \in Workers, n \in 1..MaxItems :
         (/\ WOnceCall(w, n)
          /\ \A i \in 1..Len(stream) : stream[i].id <= lastDelivered)
            => /\ wonce'[w] = "returned" /\ wret'[w] = 0
               /\ wpc'[w] = "idle"
               /\ rec' = rec /\ stream' = stream /\ dlq' = dlq
               /\ pel' = pel /\ lastDelivered' = lastDelivered]_vars

C17_Witness ==
    \E w \in Workers :
        /\ wonce[w] = "returned" /\ wret[w] = 0
        /\ stream # <<>> /\ lastDelivered = Len(stream)
        /\ rec[1] # NoRecord

\* C18: run_worker_once(w, n).  With n >= 1 the read delivers
\* min(n, undelivered entries) messages, at most n; they are processed one at
\* a time (those not yet started stay untouched in the PEL, processed counts
\* the ones finished), and the call returns that same number.  With n < 1 it
\* raises the configuration error and the consumer group is not read.
C18_ProcessesUpToMaxItems ==
    [][\A w \in Workers :
         /\ \A n \in 1..MaxItems :
              WOnceCall(w, n) =>
                LET avail == Cardinality({i \in 1..Len(stream) :
                                             stream[i].id > lastDelivered})
                    k == IF n <= avail THEN n ELSE avail
                IN /\ Cardinality(pel') = Cardinality(pel) + k
                   /\ k > 0 => (wread'[w] = k /\ Len(wbatch'[w]) = k - 1)
                   /\ k = 0 => (wonce'[w] = "returned" /\ wret'[w] = 0)
         /\ \A n \in (0 - 1)..0 :
              WOnceCall(w, n) =>
                /\ wonce'[w] = "config_error"
                /\ pel' = pel /\ lastDelivered' = lastDelivered
                /\ rec' = rec /\ stream' = stream /\ dlq' = dlq
         /\ (wpc'[w] # "idle" /\ wonce'[w] = "once") =>
                /\ wcount'[w] + 1 + Len(wbatch'[w]) = wread'[w]
                /\ \A i \in 1..Len(wbatch'[w]) :
                     wbatch'[w][i].id \in pel' /\ acks'[wbatch'[w][i].id] = 0
         /\ (wpc[w] # "idle" /\ wonce[w] = "once" /\ wonce'[w] = "returned") =>
                /\ wret'[w] = wread[w]
                /\ wret'[w] = wcount'[w]
                /\ wret'[w] <= MaxItems]_vars

C18_Witness ==
    \E w \in Workers :
        /\ wonce[w] = "returned" /\ wret[w] = 1
        /\ Len(stream) >= 2 /\ stream[2].id = 2 /\ lastDelivered = 1


\* C21: a submit_search call with top_k < 1 or with a query_embedding whose
\* length is not embedding_dim ends at once with the configuration error: the
\* depth is not read (also when the queue is at the reject threshold), no job_id
\* is minted, and no record, stream entry or DLQ entry is written.
C21_InvalidSubmitWritesNothing ==
    [][\A c \in Submitters, k \in TopKs, n \in EmbeddingLens :
         (SubmitSearch(c, k, n) /\ (k < 1 \/ n # embedding_dim))
            => /\ coutcome'[c] = "config_error"
               /\ cpc'[c] = "idle"
               /\ cdepth' = cdepth
               /\ nextJob' = nextJob
               /\ rec' = rec /\ stream' = stream /\ dlq' = dlq]_vars

C21_Witness ==
    \E c \in Submitters :
        /\ cpc[c] = "idle" /\ coutcome[c] = "config_error"
        /\ Len(stream) >= queue_reject_at

\* number of elements of the sequence q whose node_id is id
CountId(q, id) == Cardinality({i \in 1..Len(q) : q[i].node_id = id})

\* C22: the judge's reply is accepted only if the multiset of the node_ids it
\* returns equals the multiset of the node_ids of the input candidates, also
\* when the same node_id occurs more than once among the candidates.
C22_AcceptedOnlyIfMultisetEqual ==
    \A w \in Workers :
        (wio[w].judged /\ FilterError(wio[w].candidates, wio[w].decisions) = "")
            => \A id \in NodeIds \cup ForeignIds :
                  CountId(wio[w].decisions, id) = CountId(wio[w].candidates, id)

\* node_ids of the sequence q
IdsOf(q) == {q[i].node_id : i \in 1..Len(q)}

\* the reply is a well-formed array whose only defect is that some candidate's
\* node_id has no decision
MissingOnly(io) ==
    /\ io.candidates # <<>> /\ io.judged
    /\ \A i \in 1..Len(io.decisions) : io.decisions[i].reason # ""
    /\ IdsOf(io.decisions) \subseteq IdsOf(io.candidates)
    /\ \A i, k \in 1..Len(io.decisions) :
          io.decisions[i].node_id = io.decisions[k].node_id => i = k
    /\ IdsOf(io.decisions) # IdsOf(io.candidates)

MissingMessage(ids) ==
    IF ids = {"a"} THEN "missing node_id: a"
    ELSE IF ids = {"b"} THEN "missing node_id: b"
    ELSE "missing node_id: a, b"

\* C23: an attempt whose judge reply misses a candidate's node_id ends as a
\* failed attempt of the retry policy: the record gets retries = next_retry and
\* a last_error naming the missing node_id; while next_retry <= max_retries the
\* record goes back to PENDING and the message is re-enqueued (nothing goes to
\* the DLQ), and on the attempt after that the record becomes FAILED and the
\* message goes to the DLQ.
C23_MissingIdRetriedThenFailed ==
    [][\A w \in FilterWorkers :
         (WFilterDone(w) /\ MissingOnly(wio[w]))
            => LET j == wmsg[w].job
                   next == wmsg[w].retries + 1
               IN /\ rec'[j].last_error =
                        MissingMessage(IdsOf(wio[w].candidates)
                                         \ IdsOf(wio[w].decisions))
                  /\ rec'[j].retries = next
                  /\ attempts'[j] = next
                  /\ dlq' = dlq
                  /\ IF next <= max_retries
                     THEN rec'[j].state = "PENDING" /\ wpc'[w] = "enq_len"
                     ELSE rec'[j].state = "FAILED" /\ wpc'[w] = "dlq"]_vars

\* both attempts had a reply without b's decision: FAILED, in the DLQ
C23_Witness ==
    /\ Exists(1) /\ rec[1].state = "FAILED"
    /\ rec[1].last_error = "missing node_id: b"
    /\ rec[1].retries = max_retries + 1
    /\ reenqueued[1] = max_retries
    /\ Len(dlq) = 1 /\ dlq[1].error = "missing node_id: b"

\* worker w has just stored the result of a successful attempt: its record is
\* SUCCEEDED and wio[w] still holds what the attempt ran on
Succeeded(w) ==
    /\ wpc[w] = "ack" /\ wio[w].ran
    /\ Exists(wmsg[w].job) /\ rec[wmsg[w].job].state = "SUCCEEDED"
ResultOf(w) == rec[wmsg[w].job].result_json

\* the judge decided keep=true for the i-th candidate
KeepOf(io, i) ==
    \E k \in 1..Len(io.decisions) :
        /\ io.decisions[k].node_id = io.candidates[i].node_id
        /\ io.decisions[k].keep
KeptIndexes(io) == {i \in 1..Len(io.candidates) : KeepOf(io, i)}

SameCandidate(x, c) ==
    /\ x.node_id = c.node_id /\ x.path = c.path
    /\ x.score = c.score /\ x.content = c.content

\* x ranks strictly before y: higher score, or equal score and smaller path
RanksBefore(x, y) ==
    \/ x.score > y.score
    \/ x.score = y.score /\ PathRank[x.path] < PathRank[y.path]

\* C24: the candidates of a successful result are the kept candidates in
\* descending score then ascending path order, cut to the first top_k: the
\* list has min(top_k, number kept) elements, is ordered, its elements are
\* distinct kept candidates, no kept candidate left out ranks strictly before
\* one that is in, and metrics.kept_count is the length of the list.
C24_SortedTruncatedKept ==
    \A w \in Workers :
        Succeeded(w) =>
            LET io == wio[w]
                out == ResultOf(w).candidates
                n == Cardinality(KeptIndexes(io))
            IN /\ Len(out) = (IF n < io.top_k THEN n ELSE io.top_k)
               /\ Len(out) <= io.top_k
               /\ ResultOf(w).metrics.kept_count = Len(out)
               /\ \A i, k \in 1..Len(out) : i < k => ~RanksBefore(out[k], out[i])
               /\ \E f \in [1..Len(out) -> KeptIndexes(io)] :
                     /\ \A i, k \in 1..Len(out) : f[i] = f[k] => i = k
                     /\ \A i \in 1..Len(out) : SameCandidate(out[i], io.candidates[f[i]])
                     /\ \A x \in KeptIndexes(io) :
                           (\A i \in 1..Len(out) : f[i] # x)
                              => \A i \in 1..Len(out) :
                                    ~RanksBefore(io.candidates[x], out[i])

\* two candidates kept with top_k = 1, and the one returned is the second
C24_Witness ==
    \E w \in Workers :
        /\ Succeeded(w)
        /\ Len(wio[w].candidates) = 2 /\ KeptIndexes(wio[w]) = {1, 2}
        /\ wio[w].top_k = 1
        /\ Len(ResultOf(w).candidates) = 1
        /\ SameCandidate(ResultOf(w).candidates[1], wio[w].candidates[2])
        /\ ~SameCandidate(ResultOf(w).candidates[1], wio[w].candidates[1])

\* C25: candidate conservation.  Every candidate of a successful result has the
\* node_id, path, score and content of a candidate the pipeline returned, the
\* judge decided keep=true for its node_id and its reason is that decision's
\* non-empty reason; no decision with keep=false is for a node_id in the result.
C25_CandidateConservation ==
    \A w \in Workers :
        Succeeded(w) =>
            LET io == wio[w]
                out == ResultOf(w).candidates
            IN \A i \in 1..Len(out) :
                 /\ \E x \in 1..Len(io.candidates) :
                       SameCandidate(out[i], io.candidates[x])
                 /\ \E k \in 1..Len(io.decisions) :
                       /\ io.decisions[k].node_id = out[i].node_id
                       /\ io.decisions[k].keep
                       /\ io.decisions[k].reason = out[i].reason
                 /\ out[i].reason # ""
                 /\ \A k \in 1..Len(io.decisions) :
                       io.decisions[k].node_id = out[i].node_id
                          => io.decisions[k].keep

\* a result with one candidate where the judge dropped the other one
C25_Witness ==
    \E w \in Workers :
        /\ Succeeded(w)
        /\ Len(wio[w].candidates) = 2 /\ wio[w].top_k = 2
        /\ Cardinality(KeptIndexes(wio[w])) = 1
        /\ Len(ResultOf(w).candidates) = 1
        /\ ResultOf(w).candidates[1].reason = "r2"

\* C26: when the pipeline returned no candidates the judge is not invoked, and
\* the attempt ends with the record SUCCEEDED, an empty candidate list,
\* kept_count = 0 and the pipeline's entry_count, page_count and elapsed_ms.
C26_NoCandidatesNoJudge ==
    [][\A w \in FilterWorkers :
         (wio[w].ran /\ wio[w].candidates = <<>>)
            => /\ ~wio'[w].judged
               /\ WFilterDone(w)
                    => LET j == wmsg[w].job
                       IN /\ rec'[j].state = "SUCCEEDED"
                          /\ rec'[j].last_error = ""
                          /\ rec'[j].result_json.candidates = <<>>
                          /\ rec'[j].result_json.metrics =
                                [entry_count |-> wio[w].metrics.entry_count,
                                 page_count |-> wio[w].metrics.page_count,
                                 kept_count |-> 0,
                                 elapsed_ms |-> wio[w].metrics.elapsed_ms]]_vars

C26_Witness ==
    \E w \in Workers :
        /\ Succeeded(w)
        /\ wio[w].candidates = <<>> /\ ~wio[w].judged
        /\ ResultOf(w).candidates = <<>>
        /\ ResultOf(w).metrics.kept_count = 0

\* C27: a job record never expires earlier than result_ttl_sec after its most
\* recent mutation: whenever no writer is between its two commands and the
\* record of a job that was written is gone, at least result_ttl_sec seconds
\* have passed since the last write.
C27_NoEarlyExpiry ==
    \A j \in TtlJobs :
        (kpc = "idle" /\ lastWrite[j] >= 0 /\ ~Exists(j))
            => now - lastWrite[j] >= result_ttl_sec

\* every completed operation on a record leaves it with the full TTL and with
\* updated_at the time of its HSET
C27_CompletedWriteResetsTtl ==
    [][\A j \in TtlJobs :
         (KExpire(j) /\ Exists(j))
            => ttl'[j] = result_ttl_sec /\ rec'[j].updated_at = lastWrite[j]]_vars

\* C28: move_to_dlq appends to the DLQ one entry with the message's fields
\* (job_id, retries, payload_json) plus moved_at and error; the message is
\* un-ACKed and in the PEL when the entry is appended and stays so across the
\* append, and the worker's next call is the ack of that message.
C28_DlqCopyThenAck ==
    [][\A w \in Workers :
         WMoveToDlq(w)
            => /\ Len(dlq') = Len(dlq) + 1
               /\ SubSeq(dlq', 1, Len(dlq)) = dlq
               /\ dlq'[Len(dlq')] =
                     [job |-> wmsg[w].job, retries |-> wmsg[w].retries,
                      payload |-> wmsg[w].payload, moved_at |-> now,
                      error |-> werr[w]]
               /\ werr[w] # ""
               /\ wmsg[w].id \in pel /\ wmsg[w].id \in pel'
               /\ acks[wmsg[w].id] = 0 /\ acks'[wmsg[w].id] = 0
               /\ wpc'[w] = "ack" /\ wmsg'[w] = wmsg[w]]_vars

\* a retried message was copied to the DLQ and then ACKed
C28_Witness ==
    /\ Len(dlq) >= 1 /\ dlq[Len(dlq)].retries = 1 /\ dlq[Len(dlq)].payload = "p"
    /\ pel = {}
    /\ \E i \in 1..MaxMsgs : acks[i] = 1
    /\ \A w \in Workers : wpc[w] # "ack"

\* the message worker w holds has a message-level defect: no job_id, or no
\* payload_json in the message nor in the record
Defect(w) == wmsg[w].job = 0 \/ werr[w] = "payload_json-empty"

\* C29: when a message with a message-level defect is ACKed, no pipeline
\* attempt was made for it, it was not re-enqueued, and the DLQ holds an entry
\* with its fields and a non-empty error.
C29_DefectAckedAndDlqd ==
    [][\A w \in Workers :
         (WAck(w) /\ Defect(w))
            => /\ \E i \in 1..Len(dlq) :
                     /\ dlq[i].job = wmsg[w].job
                     /\ dlq[i].retries = wmsg[w].retries
                     /\ dlq[i].error # ""
               /\ stream' = stream
               /\ attempts' = attempts /\ reenqueued' = reenqueued]_vars

\* C30: for every retry number next >= 1 the backoff slept equals
\* min(retry_base_ms * 2^(next-1), retry_max_ms); it is at least retry_base_ms,
\* at most retry_max_ms, and not smaller than the backoff of the retry before.
C30_BackoffFormula ==
    [][BkSleep =>
         /\ bk'.next = bk.next + 1 /\ bk'.next >= 1
         /\ bk'.slept = (IF bk.base * 2^(bk'.next - 1) <= bk.max
                         THEN bk.base * 2^(bk'.next - 1) ELSE bk.max)
         /\ bk'.slept >= bk.base
         /\ bk'.slept <= bk.max
         /\ bk'.slept >= bk.slept]_vars

\* a run where the backoff doubled and then hit the cap
C30_Witness ==
    /\ bk.base = 2 /\ bk.max = 7 /\ bk.next = 3 /\ bk.slept = 7

\* C31: score range.  An attempt whose pipeline output has a candidate with a
\* score outside [0, 1] (0..2 in halves) does not write SUCCEEDED: the record
\* goes to PENDING for a retry or to FAILED, and result_json is not written;
\* and every candidate of a result that is stored has a score within [0, 1].
C31_ScoreRange ==
    [][\A w \in FilterWorkers :
         WFilterDone(w)
            => LET j == wmsg[w].job
                   cands == wio[w].candidates
               IN /\ (\E i \in 1..Len(cands) :
                         cands[i].score < 0 \/ cands[i].score > 2)
                        => /\ rec'[j].state \in {"PENDING", "FAILED"}
                           /\ rec'[j].result_json = rec[j].result_json
                           /\ succeededWrites' = succeededWrites
                  /\ rec'[j].state = "SUCCEEDED"
                        => \A i \in 1..Len(rec'[j].result_json.candidates) :
                              /\ rec'[j].result_json.candidates[i].score >= 0
                              /\ rec'[j].result_json.candidates[i].score <= 2]_vars

\* both attempts had an out-of-range score: FAILED without ever asking the judge
C31_Witness ==
    /\ Exists(1) /\ rec[1].state = "FAILED"
    /\ rec[1].last_error = "invalid candidate"
    /\ attempts[1] = max_retries + 1
    /\ succeededWrites[1] = 0

\* C32: SearchRequest accepts the query exactly when the value given has one
\* dimension: a 1-D value is stored as a contiguous 1-D float32 array of the
\* same shape with top_k unchanged, and a value whose number of dimensions is
\* not 1 is rejected with "query must be a 1D numpy array".
C32_AcceptsIffOneDim ==
    req.made =>
        /\ Len(req.value.shape) = 1 /\ req.top_k >= 1
              => /\ req.error = ""
                 /\ req.query = [shape |-> req.value.shape, dtype |-> "float32",
                                 contiguous |-> TRUE]
        /\ Len(req.value.shape) # 1
              => req.error = "query must be a 1D numpy array"

\* C33: the ACK is the last step of _process_message.  A worker reaches its ack
\* only by the step that completes the attempt's outcome: from the record
\* lookup when there is no job_id or no record, by mark_canceled, by
\* mark_succeeded, by the XADD of the retry message (mark_pending_retry having
\* been written when it left the attempt), or by the DLQ append (mark_failed
\* having been written before); its message stays in the PEL until then; and
\* when it ACKs, the record does not show RUNNING with the message's retries.
C33_AckIsLast ==
    [][\A w \in Workers :
         LET j == wmsg[w].job
             m == wmsg[w]
         IN /\ (wpc'[w] # wpc[w] /\ wpc'[w] = "ack")
                  => \/ wpc[w] = "get" /\ (j = 0 \/ ~Exists(j)) /\ rec' = rec
                     \/ wpc[w] = "cancel" /\ rec'[j].state = "CANCELED"
                     \/ wpc[w] = "exec" /\ rec'[j].state = "SUCCEEDED"
                     \/ /\ wpc[w] = "enq_add"
                        /\ Len(stream') = Len(stream) + 1
                        /\ stream'[Len(stream')].job = j
                        /\ stream'[Len(stream')].retries = m.retries + 1
                     \/ /\ wpc[w] = "dlq"
                        /\ Len(dlq') = Len(dlq) + 1
                        /\ dlq'[Len(dlq')].job = j
            /\ (wpc'[w] # wpc[w] /\ wpc[w] = "exec" /\ wpc'[w] # "ack")
                  => \/ /\ wpc'[w] = "enq_len"
                        /\ rec'[j].state = "PENDING"
                        /\ rec'[j].retries = m.retries + 1
                     \/ wpc'[w] = "dlq" /\ rec'[j].state = "FAILED"
            /\ (wpc'[w] # wpc[w] /\ wpc[w] \in {"enq_len", "enq_trim"})
                  => wpc'[w] \in {"enq_trim", "enq_add"}
            /\ (pel' # pel /\ m.id \in pel /\ m.id \notin pel')
                  => /\ wpc[w] = "ack"
                     /\ (j # 0 /\ Exists(j))
                           => ~(rec[j].state = "RUNNING" /\ rec[j].retries = m.retries)]_vars

\* a first attempt failed, its retry message was appended and the first
\* message was ACKed after that
C33_Witness ==
    \E j \in Jobs :
        /\ Exists(j) /\ rec[j].state = "PENDING" /\ reenqueued[j] = 1
        /\ \E i \in 1..Len(stream) :
              /\ stream[i].job = j /\ stream[i].retries = 0
              /\ acks[stream[i].id] = 1
        /\ \E i \in 1..Len(stream) : stream[i].job = j /\ stream[i].retries = 1

\* no step changes the payload_json of a record that has one
PayloadFrozen ==
    \A j \in Jobs :
        ("payload_json" \in DOMAIN rec[j] /\ Exists(j)')
            => /\ "payload_json" \in DOMAIN rec'[j]
               /\ rec'[j].payload_json = rec[j].payload_json

\* worker w appends its retry message in this step
Reenqueues(w) ==
    /\ wpc[w] = "enq_add" /\ wpc'[w] = "ack"
    /\ Len(stream') = Len(stream) + 1

MessageIds(j) ==
    {stream[i].id : i \in {k \in 1..Len(stream) : stream[k].job = j}}
        \cup {wmsg[w].id : w \in {x \in Workers : wmsg[x].job = j}}

\* worker w holds the current (latest) message of job j
HoldsCurrent(w, j) ==
    /\ wmsg[w].job = j
    /\ wmsg[w].id # 0
    /\ \A i \in MessageIds(j) : i <= wmsg[w].id

\* C35: no two workers execute the pipeline for the same job at the same
\* time; a write to an existing job record is made by cancel_job or by the
\* worker that holds the job's current message; a worker that has re-enqueued
\* (it is in backoff, before its ACK) writes nothing more to the record.
C35_SingleWriter ==
    [][/\ \A w1, w2 \in Workers :
             (w1 # w2 /\ wpc'[w1] = "exec" /\ wpc'[w2] = "exec")
                => wmsg'[w1].job # wmsg'[w2].job
       /\ \A j \in Jobs :
             (Exists(j) /\ rec'[j] # rec[j])
                => \/ \E c \in Cancelers : cpc'[c] # cpc[c] /\ cjob[c] = j
                   \/ \E w \in Workers :
                         /\ wpc'[w] # wpc[w]
                         /\ wpc[w] \in {"cancel", "run", "exec"}
                         /\ HoldsCurrent(w, j)
       /\ \A w \in Workers :
             (wpc'[w] # wpc[w] /\ wpc[w] = "ack") => rec' = rec]_vars

\* one worker is in backoff after re-enqueueing job 1 while another worker
\* executes the retry
C35_Witness ==
    \E w1, w2 \in Workers :
        /\ w1 # w2
        /\ wpc[w1] = "ack" /\ wmsg[w1].job = 1 /\ wmsg[w1].retries = 0
        /\ wpc[w2] = "exec" /\ wmsg[w2].job = 1 /\ wmsg[w2].retries = 1
        /\ reenqueued[1] = 1

\* canceled=1 is stored in the record of job j
Flagged(j) == j # 0 /\ Exists(j) /\ Field(rec[j], "canceled", "0") = "1"
FlaggedNext(j) == j # 0 /\ Exists(j)' /\ Field(rec'[j], "canceled", "0") = "1"

\* C39: canceled=1 once written is never reset; an attempt that fails with
\* retries remaining on a job flagged while RUNNING is still re-enqueued
\* (PENDING, canceled=1 kept, a new message added); the worker that next
\* dequeues the job observes the flag, writes CANCELED and goes to its ACK
\* without an attempt; no attempt starts from a message dequeued after the
\* flag was written.
C39_CancelSurvivesRetry ==
    [][/\ \A j \in Jobs : Flagged(j) => FlaggedNext(j)
       /\ \A w \in Workers :
            LET j == wmsg[w].job
                m == wmsg[w]
            IN /\ (/\ wpc[w] = "exec" /\ wpc'[w] \notin {"exec", "ack"}
                   /\ Flagged(j) /\ m.retries + 1 <= max_retries)
                      => /\ wpc'[w] = "enq_len"
                         /\ rec'[j].state = "PENDING"
                         /\ FlaggedNext(j)
               /\ (wpc[w] = "enq_add" /\ wpc'[w] = "ack" /\ Flagged(j))
                      => /\ Len(stream') = Len(stream) + 1
                         /\ stream'[Len(stream')].job = j
                         /\ stream'[Len(stream')].retries = m.retries + 1
               /\ (wpc[w] = "get" /\ wpc'[w] # "get" /\ Flagged(j))
                      => /\ wpc'[w] = "cancel"
                         /\ attempts' = attempts
               /\ (wpc[w] = "cancel" /\ wpc'[w] # "cancel")
                      => /\ wpc'[w] = "ack"
                         /\ rec'[j].state = "CANCELED"
                         /\ attempts' = attempts
               /\ (wpc'[w] \in {"run", "exec"}) => ~LateNext(w)]_vars

\* cancel_job read RUNNING and only set the flag; the first attempt failed and
\* was re-enqueued; the worker that dequeued the retry wrote CANCELED without
\* a second attempt and has acknowledged it
C39_Witness ==
    \E c \in Cancelers, i \in 1..Len(stream) :
        /\ cpc[c] = "idle" /\ coutcome[c] = "cancel_requested"
        /\ cstate[c] = "RUNNING" /\ cjob[c] = 1
        /\ stream[i].job = 1 /\ stream[i].retries = 1
        /\ acks[stream[i].id] = 1
        /\ rec[1].state = "CANCELED"
        /\ reenqueued[1] = 1 /\ attempts[1] = 1

\* a worker is between mark_failed and move_to_dlq for job j
MovingToDlq(j) == \E w \in Workers : wpc[w] = "dlq" /\ wmsg[w].job = j

\* C40 (stated as in the claim, outside the window between a worker's
\* mark_failed and its move_to_dlq): the DLQ holds an entry for a job exactly
\* when the job's record is FAILED, and never more than one entry per job.
C40_DlqIffFailed ==
    \A j \in Jobs :
        ~MovingToDlq(j)
            => /\ (DlqEntries(j) # {}) <=> (Exists(j) /\ rec[j].state = "FAILED")
               /\ Cardinality(DlqEntries(j)) <= 1

\* C38 (stated as in the claim): with no submit_search running, no step of a
\* worker or of cancel_job brings a record into existence: a job without a
\* record stays without one; and a worker that finds no record at dequeue
\* goes to its ACK with nothing written.
C38_OnlySubmitCreates ==
    [][/\ \A j \in Jobs : ~Exists(j) => ~Exists(j)'
       /\ \A w \in Workers :
             (/\ wpc[w] = "get" /\ wpc'[w] # "get"
              /\ wmsg[w].job # 0 /\ ~Exists(wmsg[w].job))
                 => wpc'[w] = "ack" /\ rec' = rec]_vars

\* C37 (stated as in the claim): no step removes from the main stream a
\* message that has not been delivered to a worker.
C37_TrimKeepsUndelivered ==
    [][\A i \in 1..Len(stream) :
          stream[i].id > lastDelivered
             => \E k \in 1..Len(stream') : stream'[k].id = stream[i].id]_vars

\* submit_search has returned job j to its caller
Accepted(j) == \E c \in Clients : cjob[c] = j /\ coutcome[c] = "accepted"

\* C36 (stated as in the claim, for the job that was given the first id): with
\* a worker that keeps running, calls that return and records that do not
\* expire, the job once accepted by submit_search eventually has state
\* SUCCEEDED, FAILED or CANCELED.
C36_AcceptedJobTerminates ==
    Accepted(1) ~> (Exists(1) /\ rec[1].state \in Terminal)

=============================================================================
